---- MODULE Spec2Model ----
(***************************************************************************)
(* Personal-training assignment lifecycle of the gym CRM server:           *)
(* createAssignment / updateAssignment / renewAssignment /                 *)
(* deleteAssignment / getExpiringAssignments (personal training            *)
(* controller) together with the Invoice model's number generator          *)
(* (pre-validate / pre-save hooks and the unique index).                   *)
(*                                                                         *)
(* Every handler is an async function: each `await` is one round trip to   *)
(* the document store.  One action of the model is one store operation     *)
(* taking effect followed by the handler code that runs up to the next     *)
(* await, so handlers of concurrent requests interleave at the awaits.     *)
(***************************************************************************)
EXTENDS Integers, Sequences, FiniteSets, TLC

\* ------------------------------------------------------------------ bounds

\* Requests the workload issues in one behaviour (concurrent / sequential /
\* seeded-store workloads).
MaxOps == 2
MaxOpsSeq == 2
MaxOpsSeeded == 1

\* Store operations that fail in one behaviour.
MaxErrors == 1

\* Submits of the add-customer form, requests to the members and bookings
\* routes, and events around useRequireAuth (context changes, page changes)
\* in one behaviour.
MaxSubmits == 2
MaxCalls == 2
MaxAuthEvents == 3

\* ------------------------------------------------------------------ dates
\* A JavaScript Date is an instant; it is kept here by its local calendar
\* day (days since 1970-01-01) and the millisecond within that day, which
\* are the fields setMonth/setDate/setHours work on.

MsPerDay == 24 * 60 * 60 * 1000
LastMs == MsPerDay - 1

\* Day number of the civil date y-m-d (m in 1..12).
DaysFromCivil(y, m, d) ==
    LET yy  == IF m <= 2 THEN y - 1 ELSE y
        era == yy \div 400
        yoe == yy - era * 400
        mp  == IF m > 2 THEN m - 3 ELSE m + 9
        doy == (153 * mp + 2) \div 5 + d - 1
        doe == yoe * 365 + yoe \div 4 - yoe \div 100 + doy
    IN  era * 146097 + doe - 719468

\* Civil date of a day number: [y, m (1..12), d].
CivilFromDays(z) ==
    LET zz  == z + 719468
        era == zz \div 146097
        doe == zz - era * 146097
        yoe == (doe - doe \div 1460 + doe \div 36524 - doe \div 146096) \div 365
        doy == doe - (365 * yoe + yoe \div 4 - yoe \div 100)
        mp  == (5 * doy + 2) \div 153
        d   == doy - (153 * mp + 2) \div 5 + 1
        m   == IF mp < 10 THEN mp + 3 ELSE mp - 9
        y   == yoe + era * 400 + (IF m <= 2 THEN 1 ELSE 0)
    IN  [y |-> y, m |-> m, d |-> d]

MkDate(y, m, d, ms) == [day |-> DaysFromCivil(y, m, d), ms |-> ms]

\* Date.prototype.getMonth (0-based), getDate, getFullYear.
getMonth(t) == CivilFromDays(t.day).m - 1
getDate(t) == CivilFromDays(t.day).d
getFullYear(t) == CivilFromDays(t.day).y

\* ECMAScript MakeDay(year, month, date): month is any integer (0-based) and
\* date any integer; both overflow into the following months / days.
MakeDay(year, month, date) ==
    LET ym == year + (month \div 12)
        mn == month % 12
    IN  DaysFromCivil(ym, mn + 1, 1) + date - 1

\* Date.prototype.setMonth(month): keeps the day of the month and the time.
setMonth(t, month) ==
    [day |-> MakeDay(getFullYear(t), month, getDate(t)), ms |-> t.ms]

\* Date.prototype.setDate(date).
setDate(t, date) ==
    [day |-> MakeDay(getFullYear(t), getMonth(t), date), ms |-> t.ms]

\* Date.prototype.setHours(h, m, s, ms), given as the millisecond of the day.
setHours(t, ms) == [day |-> t.day, ms |-> ms]

\* $gte / $lte on dates.
DateLte(a, b) == a.day < b.day \/ (a.day = b.day /\ a.ms <= b.ms)

\* "Calculate end date" of createAssignment / updateAssignment:
\*   end.setMonth(end.getMonth() + Number(duration));
\*   end.setDate(end.getDate() - 1);
ComputeEndDate(start, duration) ==
    LET end1 == setMonth(start, getMonth(start) + duration)
    IN  setDate(end1, getDate(end1) - 1)

\* ------------------------------------------------------------------ strings

Digits == {"0", "1", "2", "3", "4", "5", "6", "7", "8", "9"}
DigitSeq == <<"0", "1", "2", "3", "4", "5", "6", "7", "8", "9">>
CharAt(s, i) == SubSeq(s, i, i)
IsDigit(ch) == ch \in Digits
DigitVal(ch) == (CHOOSE i \in 1..10 : DigitSeq[i] = ch) - 1

\* RegExp.prototype.test for a literal pattern: the pattern occurs somewhere.
Contains(s, pat) ==
    \E i \in 1..(Len(s) - Len(pat) + 1) : SubSeq(s, i, i + Len(pat) - 1) = pat

\* String(n) for a non-negative integer.
RECURSIVE NumberToString(_)
NumberToString(n) ==
    IF n < 10 THEN DigitSeq[n + 1]
    ELSE NumberToString(n \div 10) \o DigitSeq[(n % 10) + 1]

\* String.prototype.padStart(targetLength, padString) for a one-character pad:
\* never truncates.
RECURSIVE padStart(_, _, _)
padStart(s, targetLength, ch) ==
    IF Len(s) >= targetLength THEN s ELSE padStart(ch \o s, targetLength, ch)

\* parseInt(digits, 10) of a non-empty string of decimal digits.
RECURSIVE parseInt(_)
parseInt(ds) ==
    IF Len(ds) = 0 THEN 0
    ELSE parseInt(SubSeq(ds, 1, Len(ds) - 1)) * 10 + DigitVal(CharAt(ds, Len(ds)))

\* s.match(/INV(\d+)/): the capture group of the leftmost match (the longest
\* run of digits that follows the leftmost "INV" which a digit follows), or ""
\* when the pattern does not match.
MatchINV(s) ==
    LET starts == {i \in 1..(Len(s) - 3) :
                      /\ SubSeq(s, i, i + 2) = "INV"
                      /\ IsDigit(CharAt(s, i + 3))}
    IN  IF starts = {} THEN ""
        ELSE LET i == CHOOSE k \in starts : \A j \in starts : k <= j
                 ends == {e \in (i + 3)..Len(s) :
                             \A k \in (i + 3)..e : IsDigit(CharAt(s, k))}
                 e == CHOOSE k \in ends : \A j \in ends : j <= k
             IN  SubSeq(s, i + 3, e)

\* ------------------------------------------------------------------ documents

Null == [null |-> TRUE]

\* The number the Invoice hooks give to an invoice saved without one, from the
\* invoice findOne({}, {}, {sort: {createdAt: -1}}) returned (Null: none).
NextInvoiceCounter(lastInvoice) ==
    IF lastInvoice # Null /\ lastInvoice.invoiceNumber # ""
       /\ MatchINV(lastInvoice.invoiceNumber) # ""
    THEN parseInt(MatchINV(lastInvoice.invoiceNumber)) + 1
    ELSE 1

\* Variant of FormatInvoiceNumber: pads to 4 digits.
FormatInvoiceNumber_Pad4(nextNumber) == "INV" \o padStart(NumberToString(nextNumber), 4, "0")

\* `INV${String(nextNumber).padStart(5, '0')}`
FormatInvoiceNumber(nextNumber) == "INV" \o padStart(NumberToString(nextNumber), 5, "0")

GenerateInvoiceNumber(lastInvoice) == FormatInvoiceNumber(NextInvoiceCounter(lastInvoice))

\* findOne({}, {}, {sort: {createdAt: -1}}): the invoices the store may return,
\* those with the latest createdAt (any of them on a tie), Null when empty.
LastInvoices(invs) ==
    IF invs = {} THEN {Null}
    ELSE {i \in invs : \A j \in invs : DateLte(j.createdAt, i.createdAt)}

\* 'items.description': /Personal Training/
IsPersonalTrainingInvoice(i) ==
    \E k \in 1..Len(i.items) : Contains(i.items[k].description, "Personal Training")

\* ------------------------------------------------------------------ workload

Procs == {"p1", "p2"}
Customers == {"c1", "c2"}
Gyms == {"g1", "g2"}
Trainers == {"t1"}
AuthUser == "u1"

\* The day the requests arrive on, and the instant Date.now() returns after
\* `ticks` readings of the clock that construct a document.
Today == DaysFromCivil(2024, 4, 14)
NowAt(ticks) == [day |-> Today, ms |-> (MsPerDay \div 2) + ticks]

addDays(t, n) == [day |-> t.day + n, ms |-> t.ms]

\* (customerId, gymId, startDate, duration) of the request bodies.
Shapes ==
    {<<"c1", "g1", MkDate(2024, 1, 15, 0), 3>>,
     <<"c1", "g1", MkDate(2024, 1, 31, 0), 1>>,
     <<"c1", "g2", MkDate(2024, 1, 15, 0), 3>>,
     <<"c2", "g1", MkDate(2024, 1, 15, 0), 3>>}

\* req.body of POST / and PUT /:id .  A field that is absent from the body is
\* absent from the record.
Body(shape, fees) ==
    [customerId |-> shape[1], trainerId |-> "t1", gymId |-> shape[2],
     startDate |-> shape[3], duration |-> shape[4], fees |-> fees]

\* A body from which field f is absent.
Without(body, f) == [g \in (DOMAIN body) \ {f} |-> body[g]]

\* Bodies that lack one field, or carry a falsy value (0, '') in one.
PartialBodies ==
    {Without(Body(<<"c1", "g1", MkDate(2024, 1, 15, 0), 1>>, 10), f) :
        f \in {"customerId", "trainerId", "gymId", "startDate", "duration", "fees"}}
    \cup
    {[customerId |-> "c1", trainerId |-> "t1", gymId |-> "g1",
      startDate |-> MkDate(2024, 1, 15, 0), duration |-> 1, fees |-> 0],
     [customerId |-> "", trainerId |-> "t1", gymId |-> "g1",
      startDate |-> MkDate(2024, 1, 15, 0), duration |-> 1, fees |-> 10]}

CreateBodies ==
    {Body(sh, 10) : sh \in Shapes}
    \cup {Body(<<"c1", "g1", MkDate(2024, 1, 15, 0), 3>>, 25)}
    \cup PartialBodies

UpdateBodies ==
    {Body(<<"c1", "g1", MkDate(2024, 1, 31, 0), 1>>, 40),
     Body(<<"c2", "g1", MkDate(2024, 1, 15, 0), 3>>, 40)}
    \cup PartialBodies

\* req.body of POST /:id/renew .
RenewEndDates ==
    {[day |-> Today + 7, ms |-> LastMs], [day |-> Today + 8, ms |-> 0]}

RenewBodies ==
    {[startDate |-> MkDate(2024, 4, 15, 0), duration |-> 3, endDate |-> e,
      fees |-> 25, gymId |-> "g1"] : e \in RenewEndDates}
    \cup
    {[startDate |-> MkDate(2024, 4, 15, 0), duration |-> 3,
      endDate |-> [day |-> Today - 1, ms |-> LastMs], fees |-> 15, gymId |-> "g2",
      paymentMode |-> "UPI", transactionDate |-> MkDate(2024, 4, 10, 0)]}
    \cup
    {Without([startDate |-> MkDate(2024, 4, 15, 0), duration |-> 3,
              endDate |-> [day |-> Today + 7, ms |-> LastMs], fees |-> 10,
              gymId |-> "g1"], f) :
        f \in {"startDate", "duration", "endDate", "fees", "gymId"}}

\* req.query of GET /expiring .
ExpiringQueries == {[gymId |-> g] : g \in Gyms} \cup {[other |-> "x"]}

\* The requests of the concurrent workload: fewer bodies, so that the
\* interleavings of two handlers can be explored in full.
ConcurrentCreateBodies == {Body(<<"c1", "g1", MkDate(2024, 1, 15, 0), 3>>, 10)}
ConcurrentUpdateBodies == {Body(<<"c1", "g1", MkDate(2024, 1, 31, 0), 1>>, 40)}
ConcurrentRenewBodies ==
    {[startDate |-> MkDate(2024, 4, 15, 0), duration |-> 3,
      endDate |-> [day |-> Today + 7, ms |-> LastMs], fees |-> 25, gymId |-> "g1"]}
ConcurrentExpiringQueries == {[gymId |-> "g1"]}

\* !x of a request field: absent (undefined), or the falsy value of its type.
FalsyNumber(body, f) == f \notin DOMAIN body \/ body[f] = 0
FalsyString(body, f) == f \notin DOMAIN body \/ body[f] = ""
FalsyDate(body, f) == f \notin DOMAIN body

\* ------------------------------------------------------------------ state

VARIABLES
    assignments,    \* PersonalTrainingAssignment collection
    customers,      \* Customer collection: personalTrainer snapshot, totalSpent
    invoices,       \* Invoice collection
    transactions,   \* Transaction collection
    nextId,         \* next fresh ObjectId of each collection
    clock,          \* readings of Date.now() that stamped a document so far
    pc,             \* per request slot: the await its handler is suspended at
    req,            \* per request slot: the request being handled
    loc,            \* per request slot: the handler's local variables
    resp,           \* per request slot: the response sent
    opsLeft,        \* requests the workload may still issue
    sched,          \* "concurrent" or "sequential" arrival of requests
    errorsLeft,     \* store operations the environment may still make fail
    pre,            \* history: the store as it was when the request arrived
    paid,           \* history: per customer, fees of the creates/renews answered 201/200
    issued          \* history: counters of the numbers given to inserted invoices, in order

VARIABLES
    members,        \* GymMember collection
    bookings,       \* Booking collection
    call,           \* the last request to the members / bookings routes, with its answer
    callsLeft,      \* requests the members / bookings workload may still issue
    gymSeq,         \* next _id of each of the two collections, and their clock
    form,           \* AddCustomerModal: the form's values and what it sent
    hook            \* useRequireAuth: what the hook sees, its state, what it did

store == <<assignments, customers, invoices, transactions>>
assignmentVars == <<assignments, customers, invoices, transactions, nextId, clock, pc,
                    req, loc, resp, opsLeft, sched, errorsLeft, pre, paid, issued>>
gymVars == <<members, bookings, call, callsLeft, gymSeq>>
vars == <<assignments, customers, invoices, transactions, nextId, clock, pc, req,
          loc, resp, opsLeft, sched, errorsLeft, pre, paid, issued,
          members, bookings, call, callsLeft, gymSeq, form, hook>>

NoReq == [op |-> "none"]
NoLoc == [assignment |-> Null, populated |-> Null, invoice |-> Null,
          transaction |-> Null, snapshotBefore |-> Null]
NoResp == [status |-> 0, body |-> Null]
StoreNow == [assignments |-> assignments, customers |-> customers,
             invoices |-> invoices, transactions |-> transactions]

\* ------------------------------------------------------------------ store operations

AssignmentById(id) == {a \in assignments : a.id = id}

\* Customer.findByIdAndUpdate(customerId, {personalTrainer: doc}) and
\* {$unset: {personalTrainer: 1}} (doc = Null): overwrites, no merge.
SetPersonalTrainer(custs, customerId, doc) ==
    IF customerId \in DOMAIN custs
    THEN [custs EXCEPT ![customerId].personalTrainer = doc]
    ELSE custs

\* Variant of UnsetPersonalTrainer: unsets only a snapshot of that assignment.
UnsetPersonalTrainer_IfCurrent(custs, assignment) ==
    IF /\ assignment.customerId \in DOMAIN custs
       /\ custs[assignment.customerId].personalTrainer # Null
       /\ custs[assignment.customerId].personalTrainer.id = assignment.id
    THEN SetPersonalTrainer(custs, assignment.customerId, Null)
    ELSE custs

\* deleteAssignment's Customer.findByIdAndUpdate(assignment.customerId,
\* {$unset: {personalTrainer: 1}}): not conditioned on the snapshot's id.
UnsetPersonalTrainer(custs, assignment) ==
    SetPersonalTrainer(custs, assignment.customerId, Null)

\* Variant of IncTotalSpent: the total is replaced by the fees.
IncTotalSpent_Replace(custs, customerId, fees) ==
    IF customerId \in DOMAIN custs
    THEN [custs EXCEPT ![customerId].totalSpent = fees]
    ELSE custs

\* Customer.findByIdAndUpdate(customerId, {$inc: {totalSpent: fees}}).
IncTotalSpent(custs, customerId, fees) ==
    IF customerId \in DOMAIN custs
    THEN [custs EXCEPT ![customerId].totalSpent = @ + fees]
    ELSE custs

\* Variant of UniqueIndexAllows: no unique index.
UniqueIndexAllows_Any(invs, doc) == TRUE

\* The unique index on invoiceNumber: may `doc` be inserted into `invs`?
UniqueIndexAllows(invs, doc) ==
    \A i \in invs : i.invoiceNumber # doc.invoiceNumber

\* toLocaleDateString() of a date.
toLocaleDateString(t) ==
    LET c == CivilFromDays(t.day)
    IN  ToString(c.m) \o "/" \o ToString(c.d) \o "/" \o ToString(c.y)

\* ------------------------------------------------------------------ handlers

\* Sequential requests are all handled at the first slot.
CanStart(p) ==
    /\ pc[p] = "idle"
    /\ opsLeft > 0
    /\ sched = "sequential" => (p = "p1" /\ \A q \in Procs : pc[q] = "idle")

\* A request arrives at slot p.
Begin(p, r) ==
    /\ CanStart(p)
    /\ opsLeft' = opsLeft - 1
    /\ req' = [req EXCEPT ![p] = r]
    /\ pre' = [pre EXCEPT ![p] = StoreNow]
    /\ UNCHANGED <<sched, errorsLeft, gymVars, form, hook>>

Goto(p, label) == pc' = [pc EXCEPT ![p] = label]

\* res.status(status).json(body): the handler returns.
Reply(p, status, body) ==
    /\ pc' = [pc EXCEPT ![p] = "done"]
    /\ resp' = [resp EXCEPT ![p] = [status |-> status, body |-> body]]

\* A step of a handler that is already running.
Running == UNCHANGED <<opsLeft, sched, errorsLeft, req, pre, gymVars, form, hook>>

\* ---- Invoice model: new Invoice({...}), save() of a new document

\* new Invoice({...}) of createAssignment (invoiceNumber: default '',
\* createdAt: default Date.now).
NewCreateInvoice(id, body, start, now) ==
    [id |-> id, userId |-> AuthUser, gymId |-> body.gymId,
     customerId |-> body.customerId, invoiceNumber |-> "", amount |-> body.fees,
     currency |-> "INR", dueDate |-> addDays(now, 7),
     items |-> <<[description |-> "Personal Training with "
                                   \o ToString(body.duration) \o " month(s) duration",
                  quantity |-> 1, unitPrice |-> [num |-> body.fees, den |-> 1],
                  amount |-> body.fees]>>,
     notes |-> "Personal training assignment starting " \o toLocaleDateString(start),
     createdAt |-> now, updatedAt |-> now]

\* new Invoice({...}) of renewAssignment.
NewRenewInvoice(id, body, customerId, now) ==
    [id |-> id, userId |-> AuthUser, gymId |-> body.gymId,
     customerId |-> customerId, invoiceNumber |-> "", amount |-> body.fees,
     currency |-> "INR", dueDate |-> body.endDate,
     items |-> <<[description |-> "Personal Training Renewal ("
                                   \o ToString(body.duration) \o " month(s))",
                  quantity |-> body.duration,
                  unitPrice |-> [num |-> body.fees, den |-> body.duration],
                  amount |-> body.fees]>>,
     notes |-> "Personal training renewal starting "
               \o toLocaleDateString(body.startDate),
     createdAt |-> now, updatedAt |-> now]

\* Variant of HookedNumber: the hooks number every invoice they see.
HookedNumber_Always(doc, lastInvoice) == GenerateInvoiceNumber(lastInvoice)

\* The pre('validate') hook (and its twin pre('save') hook, which finds the
\* number set): a document without a number gets the generated one.
HookedNumber(doc, lastInvoice) ==
    IF doc.invoiceNumber = "" THEN GenerateInvoiceNumber(lastInvoice)
    ELSE doc.invoiceNumber

\* invoice.save(), first await: the hook's findOne of the last invoice.
Invoice_preValidate(p) ==
    /\ pc[p] = "inv_preValidate"
    /\ \E last \in LastInvoices(invoices) :
         loc' = [loc EXCEPT ![p].invoice.invoiceNumber =
                                HookedNumber(loc[p].invoice, last)]
    /\ Goto(p, "inv_insert")
    /\ Running
    /\ UNCHANGED <<store, nextId, clock, resp, paid, issued>>

\* Variant of NewTransaction: a renewal is recorded as PERSONAL_TRAINING.
NewTransaction_OneType(id, r, customerId, invoice, now) ==
    [id |-> id, userId |-> customerId, gymId |-> r.body.gymId,
     invoiceId |-> invoice.id, transactionType |-> "PERSONAL_TRAINING",
     transactionDate |-> now, amount |-> r.body.fees, paymentMode |-> "cash",
     description |-> "Personal training fees for "
                     \o ToString(r.body.duration) \o " month(s)",
     status |-> "SUCCESS", createdAt |-> now]

\* new Transaction({...}) of createAssignment / renewAssignment.
NewTransaction(id, r, customerId, invoice, now) ==
    [id |-> id, userId |-> customerId, gymId |-> r.body.gymId,
     invoiceId |-> invoice.id,
     transactionType |-> IF r.op = "create" THEN "PERSONAL_TRAINING"
                         ELSE "PERSONAL_TRAINING_RENEWAL",
     transactionDate |-> IF r.op = "renew" /\ ~FalsyDate(r.body, "transactionDate")
                         THEN r.body.transactionDate ELSE now,
     amount |-> r.body.fees,
     paymentMode |-> IF r.op = "renew" /\ ~FalsyString(r.body, "paymentMode")
                     THEN r.body.paymentMode ELSE "cash",
     description |-> IF r.op = "create"
                     THEN "Personal training fees for "
                          \o ToString(r.body.duration) \o " month(s)"
                     ELSE "Personal training renewal for "
                          \o ToString(r.body.duration) \o " month(s)",
     status |-> "SUCCESS", createdAt |-> now]

\* Variant of Invoice_insert: a rejected insert is retried with a fresh number.
Invoice_insert_Retry(p) ==
    /\ pc[p] = "inv_insert"
    /\ Running
    /\ IF UniqueIndexAllows(invoices, loc[p].invoice)
       THEN /\ invoices' = invoices \cup {loc[p].invoice}
            /\ issued' = Append(issued, parseInt(MatchINV(loc[p].invoice.invoiceNumber)))
            /\ clock' = clock + 1
            /\ nextId' = [nextId EXCEPT !.transaction = @ + 1]
            /\ loc' = [loc EXCEPT ![p].transaction =
                         NewTransaction(nextId.transaction, req[p],
                                        loc[p].invoice.customerId, loc[p].invoice,
                                        NowAt(clock + 1))]
            /\ Goto(p, IF req[p].op = "create" THEN "c_txnSave" ELSE "r_txnSave")
       ELSE /\ loc' = [loc EXCEPT ![p].invoice.invoiceNumber = ""]
            /\ Goto(p, "inv_preValidate")
            /\ UNCHANGED <<invoices, issued, clock, nextId>>
    /\ UNCHANGED <<assignments, customers, transactions, paid, resp>>

\* invoice.save(), second await: the insert, which the unique index rejects
\* when the number is taken (the handler's catch answers 500).  On success the
\* handler constructs the transaction.
Invoice_insert(p) ==
    /\ pc[p] = "inv_insert"
    /\ Running
    /\ IF UniqueIndexAllows(invoices, loc[p].invoice)
       THEN /\ invoices' = invoices \cup {loc[p].invoice}
            /\ issued' = Append(issued, parseInt(MatchINV(loc[p].invoice.invoiceNumber)))
            /\ clock' = clock + 1
            /\ nextId' = [nextId EXCEPT !.transaction = @ + 1]
            /\ loc' = [loc EXCEPT ![p].transaction =
                         NewTransaction(nextId.transaction, req[p],
                                        loc[p].invoice.customerId, loc[p].invoice,
                                        NowAt(clock + 1))]
            /\ Goto(p, IF req[p].op = "create" THEN "c_txnSave" ELSE "r_txnSave")
            /\ UNCHANGED resp
       ELSE /\ Reply(p, 500, Null)
            /\ UNCHANGED <<invoices, issued, clock, nextId, loc>>
    /\ UNCHANGED <<assignments, customers, transactions, paid>>

\* ---- createAssignment

MissingCreateField(body) ==
    \/ FalsyString(body, "customerId") \/ FalsyString(body, "trainerId")
    \/ FalsyString(body, "gymId") \/ FalsyDate(body, "startDate")
    \/ FalsyNumber(body, "duration") \/ FalsyNumber(body, "fees")

\* The document createAssignment constructs / updateAssignment writes.
AssignmentDoc(id, body) ==
    [id |-> id, customerId |-> body.customerId, trainerId |-> body.trainerId,
     gymId |-> body.gymId, startDate |-> body.startDate,
     duration |-> body.duration,
     endDate |-> ComputeEndDate(body.startDate, body.duration),
     fees |-> body.fees]

createAssignment_begin(p) ==
    \E body \in (IF sched = "concurrent" THEN ConcurrentCreateBodies ELSE CreateBodies) :
        /\ Begin(p, [op |-> "create", body |-> body])
        /\ IF MissingCreateField(body)
           THEN /\ Reply(p, 400, Null)
                /\ UNCHANGED <<loc, nextId>>
           ELSE /\ loc' = [loc EXCEPT ![p].assignment =
                                        AssignmentDoc(nextId.assignment, body)]
                /\ nextId' = [nextId EXCEPT !.assignment = @ + 1]
                /\ Goto(p, "c_save")
                /\ UNCHANGED resp
        /\ UNCHANGED <<store, clock, paid, issued>>

\* await assignment.save()
createAssignment_save(p) ==
    /\ pc[p] = "c_save"
    /\ assignments' = assignments \cup {loc[p].assignment}
    /\ Goto(p, "c_findById")
    /\ Running
    /\ UNCHANGED <<customers, invoices, transactions, nextId, clock, loc, resp,
                   paid, issued>>

\* await PersonalTrainingAssignment.findById(assignment._id).populate(...)
createAssignment_findById(p) ==
    /\ pc[p] = "c_findById"
    /\ LET found == AssignmentById(loc[p].assignment.id)
       IN  loc' = [loc EXCEPT ![p].populated =
                      IF found = {} THEN Null ELSE CHOOSE a \in found : TRUE]
    /\ Goto(p, "c_snapshot")
    /\ Running
    /\ UNCHANGED <<store, nextId, clock, resp, paid, issued>>

\* Variant of createAssignment_snapshot: the same update also increments
\* totalSpent.
createAssignment_snapshot_IncFirst(p) ==
    /\ pc[p] = "c_snapshot"
    /\ customers' = IncTotalSpent(SetPersonalTrainer(customers, req[p].body.customerId,
                                                     loc[p].populated),
                                  req[p].body.customerId, req[p].body.fees)
    /\ clock' = clock + 1
    /\ nextId' = [nextId EXCEPT !.invoice = @ + 1]
    /\ loc' = [loc EXCEPT ![p].invoice =
                 NewCreateInvoice(nextId.invoice, req[p].body,
                                  req[p].body.startDate, NowAt(clock + 1))]
    /\ Goto(p, "inv_preValidate")
    /\ Running
    /\ UNCHANGED <<assignments, invoices, transactions, resp, paid, issued>>

\* await Customer.findByIdAndUpdate(customerId, {personalTrainer: ...}); then
\* the handler constructs the invoice and calls save().
createAssignment_snapshot(p) ==
    /\ pc[p] = "c_snapshot"
    /\ customers' = SetPersonalTrainer(customers, req[p].body.customerId,
                                       loc[p].populated)
    /\ clock' = clock + 1
    /\ nextId' = [nextId EXCEPT !.invoice = @ + 1]
    /\ loc' = [loc EXCEPT ![p].invoice =
                 NewCreateInvoice(nextId.invoice, req[p].body,
                                  req[p].body.startDate, NowAt(clock + 1))]
    /\ Goto(p, "inv_preValidate")
    /\ Running
    /\ UNCHANGED <<assignments, invoices, transactions, resp, paid, issued>>

\* await transaction.save()
createAssignment_txnSave(p) ==
    /\ pc[p] = "c_txnSave"
    /\ transactions' = transactions \cup {loc[p].transaction}
    /\ Goto(p, "c_inc")
    /\ Running
    /\ UNCHANGED <<assignments, customers, invoices, nextId, clock, loc, resp,
                   paid, issued>>

\* await Customer.findByIdAndUpdate(customerId, {$inc: {totalSpent: fees}});
\* res.status(201).json(...)
\* Variant of createAssignment_inc: totalSpent is written as the value read when
\* the request arrived plus the fees (read-modify-write).
createAssignment_inc_ReadModifyWrite(p) ==
    /\ pc[p] = "c_inc"
    /\ customers' = [customers EXCEPT ![req[p].body.customerId].totalSpent =
                         pre[p].customers[req[p].body.customerId].totalSpent
                             + req[p].body.fees]
    /\ paid' = [paid EXCEPT ![req[p].body.customerId] = @ + req[p].body.fees]
    /\ Reply(p, 201, [assignment |-> loc[p].populated, invoice |-> loc[p].invoice,
                      transaction |-> loc[p].transaction])
    /\ Running
    /\ UNCHANGED <<assignments, invoices, transactions, nextId, clock, loc, issued>>

createAssignment_inc(p) ==
    /\ pc[p] = "c_inc"
    /\ customers' = IncTotalSpent(customers, req[p].body.customerId, req[p].body.fees)
    /\ paid' = [paid EXCEPT ![req[p].body.customerId] = @ + req[p].body.fees]
    /\ Reply(p, 201, [assignment |-> loc[p].populated, invoice |-> loc[p].invoice,
                      transaction |-> loc[p].transaction])
    /\ Running
    /\ UNCHANGED <<assignments, invoices, transactions, nextId, clock, loc, issued>>

\* ---- updateAssignment

\* ids a client may name in /:id : every id handed out so far, and the next
\* one, which names no assignment yet (concurrent workload: the first
\* assignment's).
IdChoices == IF sched = "concurrent" THEN {1} ELSE 1..nextId.assignment

\* .sort({createdAt: -1}) then the first: the latest documents of a set (any of
\* them on a tie), Null when the set is empty.
Latest(docs) ==
    IF docs = {} THEN {Null}
    ELSE {d \in docs : \A e \in docs : DateLte(e.createdAt, d.createdAt)}

updateAssignment_begin(p) ==
    \E id \in IdChoices,
       body \in (IF sched = "concurrent" THEN ConcurrentUpdateBodies ELSE UpdateBodies) :
        /\ Begin(p, [op |-> "update", id |-> id, body |-> body])
        /\ IF MissingCreateField(body)
           THEN Reply(p, 400, Null)
           ELSE Goto(p, "u_findAndUpdate") /\ UNCHANGED resp
        /\ UNCHANGED <<store, nextId, clock, loc, paid, issued>>

\* await PersonalTrainingAssignment.findByIdAndUpdate(id, {...}, {new: true})
updateAssignment_findAndUpdate(p) ==
    /\ pc[p] = "u_findAndUpdate"
    /\ Running
    /\ IF AssignmentById(req[p].id) = {}
       THEN /\ Reply(p, 404, Null)
            /\ UNCHANGED <<assignments, loc>>
       ELSE /\ assignments' = (assignments \ AssignmentById(req[p].id))
                              \cup {AssignmentDoc(req[p].id, req[p].body)}
            /\ loc' = [loc EXCEPT ![p].assignment = AssignmentDoc(req[p].id, req[p].body)]
            /\ Goto(p, "u_snapshot")
            /\ UNCHANGED resp
    /\ UNCHANGED <<customers, invoices, transactions, nextId, clock, paid, issued>>

\* await Customer.findByIdAndUpdate(customerId, {personalTrainer: assignment})
updateAssignment_snapshot(p) ==
    /\ pc[p] = "u_snapshot"
    /\ customers' = SetPersonalTrainer(customers, req[p].body.customerId,
                                       loc[p].assignment)
    /\ Goto(p, "u_invFind")
    /\ Running
    /\ UNCHANGED <<assignments, invoices, transactions, nextId, clock, loc, resp,
                   paid, issued>>

\* Invoice.findOne({customerId, gymId, 'items.description': /Personal Training/})
MatchingInvoices(invs, customerId, gymId) ==
    {i \in invs : /\ i.customerId = customerId
                  /\ i.gymId = gymId
                  /\ IsPersonalTrainingInvoice(i)}

\* The fields updateAssignment assigns to the invoice it found.
OverwriteInvoice(invoice, body, end, start) ==
    [invoice EXCEPT
       !.amount = body.fees,
       !.dueDate = end,
       !.items = <<[description |-> "Personal Training with "
                                     \o ToString(body.duration) \o " month(s) duration",
                    quantity |-> 1, unitPrice |-> [num |-> body.fees, den |-> 1],
                    amount |-> body.fees]>>,
       !.notes = "Personal training assignment starting " \o toLocaleDateString(start)]

\* await Invoice.findOne({...}).sort({createdAt: -1}); if (invoice) {...}
updateAssignment_invFind(p) ==
    /\ pc[p] = "u_invFind"
    /\ Running
    /\ \E found \in Latest(MatchingInvoices(invoices, req[p].body.customerId,
                                            req[p].body.gymId)) :
         IF found = Null
         THEN /\ Goto(p, "u_txnFind")
              /\ UNCHANGED loc
         ELSE /\ loc' = [loc EXCEPT ![p].invoice =
                           OverwriteInvoice(found, req[p].body,
                                            loc[p].assignment.endDate,
                                            req[p].body.startDate)]
              /\ Goto(p, "u_invSave")
    /\ UNCHANGED <<store, nextId, clock, resp, paid, issued>>

\* Variant of SaveExistingInvoice: the document is stored as a new one.
SaveExistingInvoice_Insert(invs, doc, lastInvoice, now) ==
    invs \cup {[doc EXCEPT !.id = doc.id + 1000, !.invoiceNumber = "",
                          !.createdAt = now, !.updatedAt = now]}

\* save() of a document that is already stored: the hooks run (a numbered
\* invoice keeps its number), then the modified paths are written to the stored
\* document with that _id.
SaveExistingInvoice(invs, doc, lastInvoice, now) ==
    {IF i.id = doc.id
     THEN [i EXCEPT !.amount = doc.amount, !.dueDate = doc.dueDate,
                    !.items = doc.items, !.notes = doc.notes,
                    !.invoiceNumber = HookedNumber(doc, lastInvoice),
                    !.updatedAt = now]
     ELSE i : i \in invs}

\* await invoice.save().  When the document was deleted meanwhile the write
\* matches nothing: depending on the driver version save() throws (500) or
\* resolves.
updateAssignment_invSave(p) ==
    /\ pc[p] = "u_invSave"
    /\ Running
    /\ \/ /\ \E i \in invoices : i.id = loc[p].invoice.id
          /\ \E last \in LastInvoices(invoices) :
               invoices' = SaveExistingInvoice(invoices, loc[p].invoice, last,
                                               NowAt(clock))
          /\ Goto(p, "u_txnFind")
          /\ UNCHANGED resp
       \/ /\ ~ \E i \in invoices : i.id = loc[p].invoice.id
          /\ UNCHANGED invoices
          /\ \/ Goto(p, "u_txnFind") /\ UNCHANGED resp
             \/ Reply(p, 500, Null)
    /\ UNCHANGED <<assignments, customers, transactions, nextId, clock, loc,
                   paid, issued>>

\* Transaction.findOne({userId: customerId, gymId, transactionType: 'PERSONAL_TRAINING'})
MatchingTransactions(txns, customerId, gymId) ==
    {t \in txns : /\ t.userId = customerId
                  /\ t.gymId = gymId
                  /\ t.transactionType = "PERSONAL_TRAINING"}

\* Variant of updateAssignment_txnFind: no transaction found is answered 404.
updateAssignment_txnFind_Strict(p) ==
    /\ pc[p] = "u_txnFind"
    /\ Running
    /\ \E found \in Latest(MatchingTransactions(transactions, req[p].body.customerId,
                                                req[p].body.gymId)) :
         IF found = Null
         THEN /\ Reply(p, 404, Null)
              /\ UNCHANGED loc
         ELSE /\ loc' = [loc EXCEPT ![p].transaction =
                           [found EXCEPT
                              !.amount = req[p].body.fees,
                              !.description = "Personal training fees for "
                                  \o ToString(req[p].body.duration) \o " month(s)",
                              !.transactionDate = NowAt(clock)]]
              /\ Goto(p, "u_txnSave")
              /\ UNCHANGED resp
    /\ UNCHANGED <<store, nextId, clock, paid, issued>>

\* await Transaction.findOne({...}).sort({createdAt: -1}); if (transaction) {...}
\* else res.json(assignment)
updateAssignment_txnFind(p) ==
    /\ pc[p] = "u_txnFind"
    /\ Running
    /\ \E found \in Latest(MatchingTransactions(transactions, req[p].body.customerId,
                                                req[p].body.gymId)) :
         IF found = Null
         THEN /\ Reply(p, 200, loc[p].assignment)
              /\ UNCHANGED loc
         ELSE /\ loc' = [loc EXCEPT ![p].transaction =
                           [found EXCEPT
                              !.amount = req[p].body.fees,
                              !.description = "Personal training fees for "
                                  \o ToString(req[p].body.duration) \o " month(s)",
                              !.transactionDate = NowAt(clock)]]
              /\ Goto(p, "u_txnSave")
              /\ UNCHANGED resp
    /\ UNCHANGED <<store, nextId, clock, paid, issued>>

SaveExistingTransaction(txns, doc) ==
    {IF t.id = doc.id
     THEN [t EXCEPT !.amount = doc.amount, !.description = doc.description,
                    !.transactionDate = doc.transactionDate]
     ELSE t : t \in txns}

\* await transaction.save(); res.json(assignment)
updateAssignment_txnSave(p) ==
    /\ pc[p] = "u_txnSave"
    /\ Running
    /\ \/ /\ \E t \in transactions : t.id = loc[p].transaction.id
          /\ transactions' = SaveExistingTransaction(transactions, loc[p].transaction)
          /\ Reply(p, 200, loc[p].assignment)
       \/ /\ ~ \E t \in transactions : t.id = loc[p].transaction.id
          /\ UNCHANGED transactions
          /\ \/ Reply(p, 200, loc[p].assignment)
             \/ Reply(p, 500, Null)
    /\ UNCHANGED <<assignments, customers, invoices, nextId, clock, loc, paid, issued>>

\* ---- deleteAssignment

deleteAssignment_begin(p) ==
    \E id \in IdChoices :
        /\ Begin(p, [op |-> "delete", id |-> id])
        /\ Goto(p, "d_find")
        /\ UNCHANGED <<store, nextId, clock, loc, resp, paid, issued>>

\* Variant of deleteAssignment_find: without the `if (!assignment)` answer, the
\* dereference of null throws and the catch answers 500.
deleteAssignment_find_NoCheck(p) ==
    /\ pc[p] = "d_find"
    /\ Running
    /\ IF AssignmentById(req[p].id) = {}
       THEN /\ Reply(p, 500, Null)
            /\ UNCHANGED loc
       ELSE /\ loc' = [loc EXCEPT ![p].assignment =
                                    CHOOSE a \in AssignmentById(req[p].id) : TRUE]
            /\ Goto(p, "d_unset")
            /\ UNCHANGED resp
    /\ UNCHANGED <<store, nextId, clock, paid, issued>>

\* await PersonalTrainingAssignment.findById(id)
deleteAssignment_find(p) ==
    /\ pc[p] = "d_find"
    /\ Running
    /\ IF AssignmentById(req[p].id) = {}
       THEN /\ Reply(p, 404, Null)
            /\ UNCHANGED loc
       ELSE /\ loc' = [loc EXCEPT ![p].assignment =
                                    CHOOSE a \in AssignmentById(req[p].id) : TRUE]
            /\ Goto(p, "d_unset")
            /\ UNCHANGED resp
    /\ UNCHANGED <<store, nextId, clock, paid, issued>>

\* await Customer.findByIdAndUpdate(assignment.customerId, {$unset: {personalTrainer: 1}})
deleteAssignment_unset(p) ==
    /\ pc[p] = "d_unset"
    /\ customers' = UnsetPersonalTrainer(customers, loc[p].assignment)
    /\ loc' = [loc EXCEPT ![p].snapshotBefore =
                            customers[loc[p].assignment.customerId].personalTrainer]
    /\ Goto(p, "d_delInvoices")
    /\ Running
    /\ UNCHANGED <<assignments, invoices, transactions, nextId, clock, resp,
                   paid, issued>>

\* await Invoice.deleteMany({customerId, gymId, 'items.description': /Personal Training/})
deleteAssignment_delInvoices(p) ==
    /\ pc[p] = "d_delInvoices"
    /\ invoices' = invoices \ MatchingInvoices(invoices, loc[p].assignment.customerId,
                                               loc[p].assignment.gymId)
    /\ Goto(p, "d_delTxns")
    /\ Running
    /\ UNCHANGED <<assignments, customers, transactions, nextId, clock, loc, resp,
                   paid, issued>>

\* Variant of PersonalTrainingTransactions: renewals are not matched.
PersonalTrainingTransactions_NoRenewal(txns, customerId, gymId) ==
    {t \in txns : /\ t.userId = customerId
                  /\ t.gymId = gymId
                  /\ t.transactionType = "PERSONAL_TRAINING"}

\* Transaction.deleteMany({userId, gymId, transactionType: {$in: [...]}})
PersonalTrainingTransactions(txns, customerId, gymId) ==
    {t \in txns : /\ t.userId = customerId
                  /\ t.gymId = gymId
                  /\ t.transactionType \in {"PERSONAL_TRAINING",
                                            "PERSONAL_TRAINING_RENEWAL"}}

\* await Transaction.deleteMany({...})
deleteAssignment_delTxns(p) ==
    /\ pc[p] = "d_delTxns"
    /\ transactions' = transactions
           \ PersonalTrainingTransactions(transactions, loc[p].assignment.customerId,
                                          loc[p].assignment.gymId)
    /\ Goto(p, "d_delAssignment")
    /\ Running
    /\ UNCHANGED <<assignments, customers, invoices, nextId, clock, loc, resp,
                   paid, issued>>

\* await PersonalTrainingAssignment.findByIdAndDelete(id); res.json({message})
\* Variant of deleteAssignment_delAssignment: the deleted assignment's fees are
\* taken back from totalSpent.
deleteAssignment_delAssignment_Refund(p) ==
    /\ pc[p] = "d_delAssignment"
    /\ assignments' = assignments \ AssignmentById(req[p].id)
    /\ customers' = IncTotalSpent(customers, loc[p].assignment.customerId,
                                  0 - loc[p].assignment.fees)
    /\ Reply(p, 200, Null)
    /\ Running
    /\ UNCHANGED <<invoices, transactions, nextId, clock, loc, paid, issued>>

deleteAssignment_delAssignment(p) ==
    /\ pc[p] = "d_delAssignment"
    /\ assignments' = assignments \ AssignmentById(req[p].id)
    /\ Reply(p, 200, Null)
    /\ Running
    /\ UNCHANGED <<customers, invoices, transactions, nextId, clock, loc, paid, issued>>

\* ---- renewAssignment

\* Variant of MissingRenewField: endDate is not checked.
MissingRenewField_NoEndDate(body) ==
    \/ FalsyDate(body, "startDate") \/ FalsyNumber(body, "duration")
    \/ FalsyNumber(body, "fees") \/ FalsyString(body, "gymId")

MissingRenewField(body) ==
    \/ FalsyDate(body, "startDate") \/ FalsyNumber(body, "duration")
    \/ FalsyDate(body, "endDate") \/ FalsyNumber(body, "fees")
    \/ FalsyString(body, "gymId")

renewAssignment_begin(p) ==
    \E id \in IdChoices,
       body \in (IF sched = "concurrent" THEN ConcurrentRenewBodies ELSE RenewBodies) :
        /\ Begin(p, [op |-> "renew", id |-> id, body |-> body])
        /\ IF MissingRenewField(body)
           THEN Reply(p, 400, Null)
           ELSE Goto(p, "r_findAndUpdate") /\ UNCHANGED resp
        /\ UNCHANGED <<store, nextId, clock, loc, paid, issued>>

\* Variant of RenewedAssignment: the end date is computed as in createAssignment.
RenewedAssignment_Recomputed(a, body) ==
    [a EXCEPT !.startDate = body.startDate, !.duration = body.duration,
              !.endDate = ComputeEndDate(body.startDate, body.duration),
              !.fees = body.fees]

\* The fields renewAssignment writes to the assignment: endDate is the caller's.
RenewedAssignment(a, body) ==
    [a EXCEPT !.startDate = body.startDate, !.duration = body.duration,
              !.endDate = body.endDate, !.fees = body.fees]

\* await PersonalTrainingAssignment.findByIdAndUpdate(id, {...}, {new: true})
renewAssignment_findAndUpdate(p) ==
    /\ pc[p] = "r_findAndUpdate"
    /\ Running
    /\ IF AssignmentById(req[p].id) = {}
       THEN /\ Reply(p, 404, Null)
            /\ UNCHANGED <<assignments, loc>>
       ELSE LET old == CHOOSE a \in AssignmentById(req[p].id) : TRUE
                new == RenewedAssignment(old, req[p].body)
            IN  /\ assignments' = (assignments \ {old}) \cup {new}
                /\ loc' = [loc EXCEPT ![p].assignment = new]
                /\ Goto(p, "r_snapshot")
                /\ UNCHANGED resp
    /\ UNCHANGED <<customers, invoices, transactions, nextId, clock, paid, issued>>

\* Variant of renewAssignment_snapshot: the snapshot is written only while the
\* assignment is still stored.
renewAssignment_snapshot_IfStored(p) ==
    /\ pc[p] = "r_snapshot"
    /\ customers' = IF AssignmentById(req[p].id) = {} THEN customers
                    ELSE SetPersonalTrainer(customers, loc[p].assignment.customerId,
                                            loc[p].assignment)
    /\ clock' = clock + 1
    /\ nextId' = [nextId EXCEPT !.invoice = @ + 1]
    /\ loc' = [loc EXCEPT ![p].invoice =
                 NewRenewInvoice(nextId.invoice, req[p].body,
                                 loc[p].assignment.customerId, NowAt(clock + 1))]
    /\ Goto(p, "inv_preValidate")
    /\ Running
    /\ UNCHANGED <<assignments, invoices, transactions, resp, paid, issued>>

\* await Customer.findByIdAndUpdate(assignment.customerId, {personalTrainer:
\* assignment}); then the handler constructs the invoice and calls save().
renewAssignment_snapshot(p) ==
    /\ pc[p] = "r_snapshot"
    /\ customers' = SetPersonalTrainer(customers, loc[p].assignment.customerId,
                                       loc[p].assignment)
    /\ clock' = clock + 1
    /\ nextId' = [nextId EXCEPT !.invoice = @ + 1]
    /\ loc' = [loc EXCEPT ![p].invoice =
                 NewRenewInvoice(nextId.invoice, req[p].body,
                                 loc[p].assignment.customerId, NowAt(clock + 1))]
    /\ Goto(p, "inv_preValidate")
    /\ Running
    /\ UNCHANGED <<assignments, invoices, transactions, resp, paid, issued>>

\* await txn.save()
renewAssignment_txnSave(p) ==
    /\ pc[p] = "r_txnSave"
    /\ transactions' = transactions \cup {loc[p].transaction}
    /\ Goto(p, "r_inc")
    /\ Running
    /\ UNCHANGED <<assignments, customers, invoices, nextId, clock, loc, resp,
                   paid, issued>>

\* await Customer.findByIdAndUpdate(..., {$inc: {totalSpent: fees}});
\* res.status(200).json(...)
renewAssignment_inc(p) ==
    /\ pc[p] = "r_inc"
    /\ customers' = IncTotalSpent(customers, loc[p].assignment.customerId,
                                  req[p].body.fees)
    /\ paid' = [paid EXCEPT ![loc[p].assignment.customerId] = @ + req[p].body.fees]
    /\ Reply(p, 200, [assignment |-> loc[p].assignment, invoice |-> loc[p].invoice,
                      transaction |-> loc[p].transaction])
    /\ Running
    /\ UNCHANGED <<assignments, invoices, transactions, nextId, clock, loc, issued>>

\* ---- getExpiringAssignments

\* today.setHours(0, 0, 0, 0)
StartOfToday(now) == setHours(now, 0)

\* Variant of SevenDaysFromNow: without setHours(23, 59, 59, 999).
SevenDaysFromNow_Midnight(now) ==
    setDate(StartOfToday(now), getDate(StartOfToday(now)) + 7)

\* sevenDaysFromNow.setDate(today.getDate() + 7); setHours(23, 59, 59, 999)
SevenDaysFromNow(now) ==
    setHours(setDate(StartOfToday(now), getDate(StartOfToday(now)) + 7), LastMs)

\* find({endDate: {$gte: today, $lte: sevenDaysFromNow}} and, if (gymId), gymId)
ExpiringFilter(a, query, now) ==
    /\ DateLte(StartOfToday(now), a.endDate)
    /\ DateLte(a.endDate, SevenDaysFromNow(now))
    /\ ~FalsyString(query, "gymId") => a.gymId = query.gymId

getExpiringAssignments_begin(p) ==
    \E query \in (IF sched = "concurrent" THEN ConcurrentExpiringQueries
                   ELSE ExpiringQueries) :
        /\ Begin(p, [op |-> "expiring", query |-> query])
        /\ Goto(p, "e_find")
        /\ UNCHANGED <<store, nextId, clock, loc, resp, paid, issued>>

\* await PersonalTrainingAssignment.find(filter); res.json(assignments)
getExpiringAssignments_find(p) ==
    /\ pc[p] = "e_find"
    /\ Reply(p, 200, [assignments |->
                        {a \in assignments :
                            ExpiringFilter(a, req[p].query, NowAt(clock))}])
    /\ Running
    /\ UNCHANGED <<store, nextId, clock, loc, paid, issued>>

\* ---- failures and responses

AwaitLabels ==
    {"c_save", "c_findById", "c_snapshot", "inv_preValidate", "inv_insert",
     "c_txnSave", "c_inc", "u_findAndUpdate", "u_snapshot", "u_invFind",
     "u_invSave", "u_txnFind", "u_txnSave", "d_find", "d_unset", "d_delInvoices",
     "d_delTxns", "d_delAssignment", "r_findAndUpdate", "r_snapshot", "r_txnSave",
     "r_inc", "e_find"}

\* Variant of StoreError: the catch of createAssignment removes the assignment
\* it inserted.
StoreError_Rollback(p) ==
    /\ pc[p] \in AwaitLabels
    /\ errorsLeft > 0
    /\ errorsLeft' = errorsLeft - 1
    /\ Reply(p, 500, Null)
    /\ assignments' = IF req[p].op = "create"
                      THEN assignments \ AssignmentById(loc[p].assignment.id)
                      ELSE assignments
    /\ UNCHANGED <<opsLeft, sched, req, pre, gymVars, form, hook>>
    /\ UNCHANGED <<customers, invoices, transactions, nextId, clock, loc, paid, issued>>

\* The awaited store operation rejects (connection lost, validation error):
\* nothing is written, the handler's catch answers 500.
StoreError(p) ==
    /\ pc[p] \in AwaitLabels
    /\ errorsLeft > 0
    /\ errorsLeft' = errorsLeft - 1
    /\ Reply(p, 500, Null)
    /\ UNCHANGED <<opsLeft, sched, req, pre, gymVars, form, hook>>
    /\ UNCHANGED <<store, nextId, clock, loc, paid, issued>>

\* The response reaches the client; the slot is free for the next request.
Finish(p) ==
    /\ pc[p] = "done"
    /\ pc' = [pc EXCEPT ![p] = "idle"]
    /\ req' = [req EXCEPT ![p] = NoReq]
    /\ loc' = [loc EXCEPT ![p] = NoLoc]
    /\ resp' = [resp EXCEPT ![p] = NoResp]
    /\ pre' = [pre EXCEPT ![p] = Null]
    /\ UNCHANGED <<store, nextId, clock, opsLeft, sched, errorsLeft, paid, issued,
                   gymVars, form, hook>>

\* ------------------------------------------------------------------ members and bookings

\* req.user.gymId of the members routes: a gym, or none (undefined).
NoGym == ""

\* _id values a request can name: stored documents and one that never existed.
GymIds(docs) == {d.id : d \in docs} \cup {99}

Overlay(a, b) ==
    [f \in (DOMAIN a) \cup (DOMAIN b) |-> IF f \in DOMAIN b THEN b[f] ELSE a[f]]
Restrict(a, fields) == [f \in (DOMAIN a) \cap fields |-> a[f]]

\* The documents of S in the order find() returns them: by _id (no sort given),
\* or under .sort({ startTime: dir }) with dir 1 or -1; documents with equal
\* startTime by _id.
RECURSIVE Sorted(_, _, _)
Sorted(S, field, dir) ==
    LET Before(x, y) ==
            IF field = "_id" \/ x.startTime = y.startTime THEN x.id <= y.id
            ELSE IF dir = 1 THEN DateLte(x.startTime, y.startTime)
            ELSE DateLte(y.startTime, x.startTime)
    IN  IF S = {} THEN <<>>
        ELSE LET d == CHOOSE x \in S : \A y \in S : Before(x, y)
             IN  <<d>> \o Sorted(S \ {d}, field, dir)

\* The fields the members routes take from req.body.
MemberFields ==
    {"name", "email", "phone", "membershipType", "startDate", "endDate", "status"}

MemberBody(name, status) ==
    [name |-> name, email |-> "m@gym.in", phone |-> "9000000001",
     membershipType |-> "basic", startDate |-> MkDate(2024, 1, 15, 0),
     endDate |-> MkDate(2024, 4, 14, 0), status |-> status]

MemberBodies ==
    {MemberBody("Asha", "active"),
     Overlay(MemberBody("Ravi", "inactive"), [gymId |-> "g2"])}

\* POST /bookings bodies: a personal-training booking, the same naming another
\* gym and another user, and bodies the route or the schema rejects.
BookingBody ==
    [customerId |-> "c1", type |-> "personal_training",
     startTime |-> MkDate(2024, 5, 1, 0), endTime |-> MkDate(2024, 5, 1, 3600000),
     trainerId |-> "t1", trainerName |-> "Tara", price |-> 30, paymentMode |-> "UPI"]

BookingBodies ==
    {BookingBody,
     Overlay(BookingBody, [gymId |-> "g2", userId |-> "u2", createdBy |-> "u2",
                           startTime |-> MkDate(2024, 6, 1, 0),
                           endTime |-> MkDate(2024, 6, 1, 3600000)]),
     Without(BookingBody, "trainerId"),
     Without(BookingBody, "endTime"),
     Without(BookingBody, "price"),
     Overlay(BookingBody, [price |-> -1]),
     Without(BookingBody, "paymentMode")}

\* PUT /bookings/:id bodies.
BookingUpdates ==
    {[status |-> "cancelled"],
     [price |-> 45, notes |-> "moved"],
     [gymId |-> "g2"],
     [gymId |-> "g1", status |-> "completed"]}

\* Paths of bookingSchema (strict: other keys of an update or a new document
\* are dropped); _id is not among the keys the workload sends.
BookingPaths ==
    {"userId", "gymId", "customerId", "type", "status", "startTime", "endTime",
     "classId", "className", "trainerId", "trainerName", "equipmentId",
     "equipmentName", "notes", "createdBy", "price", "currency", "createdAt",
     "updatedAt", "paymentMode"}

\* Schema validation of a new booking: the required paths.
Booking_validate(doc) ==
    /\ {"userId", "gymId", "customerId", "type", "startTime", "endTime",
        "createdBy", "price", "currency", "paymentMode"} \subseteq DOMAIN doc
    /\ doc.type = "class" => {"classId", "className"} \subseteq DOMAIN doc
    /\ doc.type = "personal_training" => {"trainerId", "trainerName"} \subseteq DOMAIN doc
    /\ doc.type = "equipment" => {"equipmentId", "equipmentName"} \subseteq DOMAIN doc
    /\ doc.price >= 0

\* new Booking({...req.body, userId: req.user._id, gymId: req.gymId,
\*              createdBy: req.user._id}) with the schema's defaults; the
\* pre('save') hook and the timestamps set updatedAt.
NewBooking(id, body, user, gymId, now) ==
    Overlay(Overlay([status |-> "scheduled", currency |-> "INR",
                     createdAt |-> now, updatedAt |-> now],
                    Restrict(body, BookingPaths)),
            [id |-> id, userId |-> user, gymId |-> gymId, createdBy |-> user,
             updatedAt |-> now])

\* The validations of POST /bookings before the document is built: the message
\* of the first that fails, "" when all pass.
BookingRejection(body) ==
    LET Has(b, f) == f \in DOMAIN b /\ b[f] # ""
    IN
    CASE Has(body, "type") /\ body.type = "class" /\ ~Has(body, "classId") ->
             "Class ID is required for class bookings"
      [] Has(body, "type") /\ body.type = "personal_training"
             /\ ~Has(body, "trainerId") ->
             "Trainer ID is required for personal training bookings"
      [] Has(body, "type") /\ body.type = "equipment" /\ ~Has(body, "equipmentId") ->
             "Equipment ID is required for equipment bookings"
      [] ~("startTime" \in DOMAIN body) \/ ~("endTime" \in DOMAIN body) ->
             "Start time and end time are required"
      [] ~("price" \in DOMAIN body) \/ body.price < 0 ->
             "Price must be a non-negative number"
      [] OTHER -> ""

NoCall ==
    [api |-> "", route |-> "", gymId |-> "", id |-> 0, body |-> Null,
     status |-> 0, data |-> Null,
     before |-> [members |-> {}, bookings |-> {}]]

\* One request to the members or bookings routes, answered.
Answer(api, route, gymId, id, body, status, data) ==
    /\ callsLeft > 0
    /\ callsLeft' = callsLeft - 1
    /\ call' = [api |-> api, route |-> route, gymId |-> gymId, id |-> id,
                body |-> body, status |-> status, data |-> data,
                before |-> [members |-> members, bookings |-> bookings]]
    /\ UNCHANGED <<assignmentVars, form, hook>>

\* ---- members routes

\* GymMember.find / findOne with a filter on _id and gymId.
MemberOfGym(id, gymId) == {m \in members : m.id = id /\ m.gymId = gymId}

\* router.get('/')
members_list ==
    \E gymId \in Gyms \cup {NoGym}, ok \in BOOLEAN :
        /\ UNCHANGED <<members, bookings, gymSeq>>
        /\ IF gymId = NoGym
           THEN Answer("members", "GET /", gymId, 0, Null, 400, Null)
           ELSE IF ~ok
           THEN Answer("members", "GET /", gymId, 0, Null, 500, Null)
           ELSE Answer("members", "GET /", gymId, 0, Null, 200,
                       Sorted({m \in members : m.gymId = gymId}, "_id", 1))

\* router.get('/:id')
members_get ==
    \E gymId \in Gyms \cup {NoGym}, id \in GymIds(members), ok \in BOOLEAN :
        /\ UNCHANGED <<members, bookings, gymSeq>>
        /\ IF gymId = NoGym
           THEN Answer("members", "GET /:id", gymId, id, Null, 400, Null)
           ELSE IF ~ok
           THEN Answer("members", "GET /:id", gymId, id, Null, 500, Null)
           ELSE IF MemberOfGym(id, gymId) = {}
           THEN Answer("members", "GET /:id", gymId, id, Null, 404, Null)
           ELSE Answer("members", "GET /:id", gymId, id, Null, 200,
                       CHOOSE m \in MemberOfGym(id, gymId) : TRUE)

\* router.post('/')
members_create ==
    \E gymId \in Gyms \cup {NoGym}, body \in MemberBodies, ok \in BOOLEAN :
        LET doc == Overlay([id |-> gymSeq.member, gymId |-> gymId],
                           Restrict(body, MemberFields))
        IN  IF gymId = NoGym
            THEN /\ Answer("members", "POST /", gymId, 0, body, 400, Null)
                 /\ UNCHANGED <<members, bookings, gymSeq>>
            ELSE IF ~ok
            THEN /\ Answer("members", "POST /", gymId, 0, body, 500, Null)
                 /\ UNCHANGED <<members, bookings, gymSeq>>
            ELSE /\ Answer("members", "POST /", gymId, 0, body, 201, doc)
                 /\ members' = members \cup {doc}
                 /\ gymSeq' = [gymSeq EXCEPT !.member = @ + 1]
                 /\ UNCHANGED bookings

\* router.put('/:id')
members_update ==
    \E gymId \in Gyms \cup {NoGym}, id \in GymIds(members), body \in MemberBodies,
       ok \in BOOLEAN :
        LET found == MemberOfGym(id, gymId)
            old   == CHOOSE m \in found : TRUE
            new   == Overlay(old, Restrict(body, MemberFields))
        IN  IF gymId = NoGym \/ ~ok \/ found = {}
            THEN /\ Answer("members", "PUT /:id", gymId, id, body,
                           IF gymId = NoGym THEN 400
                           ELSE IF ~ok THEN 500 ELSE 404, Null)
                 /\ UNCHANGED <<members, bookings, gymSeq>>
            ELSE /\ Answer("members", "PUT /:id", gymId, id, body, 200, new)
                 /\ members' = (members \ {old}) \cup {new}
                 /\ UNCHANGED <<bookings, gymSeq>>

\* router.delete('/:id')
members_delete ==
    \E gymId \in Gyms \cup {NoGym}, id \in GymIds(members), ok \in BOOLEAN :
        LET found == MemberOfGym(id, gymId)
        IN  IF gymId = NoGym \/ ~ok \/ found = {}
            THEN /\ Answer("members", "DELETE /:id", gymId, id, Null,
                           IF gymId = NoGym THEN 400
                           ELSE IF ~ok THEN 500 ELSE 404, Null)
                 /\ UNCHANGED <<members, bookings, gymSeq>>
            ELSE /\ Answer("members", "DELETE /:id", gymId, id, Null, 200, Null)
                 /\ members' = members \ found
                 /\ UNCHANGED <<bookings, gymSeq>>

\* ---- bookings routes (req.gymId is set by the gymAuth middleware)

BookingsOfGym(gymId) == {b \in bookings : b.gymId = gymId}
BookingOfGym_AnyGym(id, gymId) == {b \in bookings : b.id = id}
BookingOfGym(id, gymId) == {b \in bookings : b.id = id /\ b.gymId = gymId}

\* router.get('/')
bookings_list ==
    \E gymId \in Gyms, ok \in BOOLEAN :
        /\ UNCHANGED <<members, bookings, gymSeq>>
        /\ IF ~ok
           THEN Answer("bookings", "GET /", gymId, 0, Null, 500, Null)
           ELSE Answer("bookings", "GET /", gymId, 0, Null, 200,
                       Sorted(BookingsOfGym(gymId), "startTime", -1))

\* router.get('/calendar')
bookings_calendar ==
    \E gymId \in Gyms, ok \in BOOLEAN,
       query \in {[startDate |-> MkDate(2024, 5, 1, 0),
                   endDate |-> MkDate(2024, 5, 31, 0), type |-> ""],
                  [startDate |-> MkDate(2024, 1, 1, 0),
                   endDate |-> MkDate(2024, 12, 31, 0),
                   type |-> "personal_training"]} :
        LET found == {b \in BookingsOfGym(gymId) :
                         /\ DateLte(query.startDate, b.startTime)
                         /\ DateLte(b.startTime, query.endDate)
                         /\ query.type # "" => b.type = query.type}
        IN  /\ UNCHANGED <<members, bookings, gymSeq>>
            /\ IF ~ok
               THEN Answer("bookings", "GET /calendar", gymId, 0, query, 500, Null)
               ELSE Answer("bookings", "GET /calendar", gymId, 0, query, 200,
                           Sorted(found, "startTime", 1))

\* router.get('/:id')
bookings_get ==
    \E gymId \in Gyms, id \in GymIds(bookings), ok \in BOOLEAN :
        /\ UNCHANGED <<members, bookings, gymSeq>>
        /\ IF ~ok
           THEN Answer("bookings", "GET /:id", gymId, id, Null, 500, Null)
           ELSE IF BookingOfGym(id, gymId) = {}
           THEN Answer("bookings", "GET /:id", gymId, id, Null, 404, Null)
           ELSE Answer("bookings", "GET /:id", gymId, id, Null, 200,
                       CHOOSE b \in BookingOfGym(id, gymId) : TRUE)

\* router.post('/')
bookings_create ==
    \E gymId \in Gyms, user \in {"u1", "u2"}, body \in BookingBodies, ok \in BOOLEAN :
        LET doc == NewBooking(gymSeq.booking, body, user, gymId, NowAt(gymSeq.clock))
        IN  IF BookingRejection(body) # ""
            THEN /\ Answer("bookings", "POST /", gymId, 0, body, 400, Null)
                 /\ UNCHANGED <<members, bookings, gymSeq>>
            ELSE IF ~ok \/ ~Booking_validate(doc)
            THEN /\ Answer("bookings", "POST /", gymId, 0, body, 500, Null)
                 /\ UNCHANGED <<members, bookings, gymSeq>>
            ELSE /\ Answer("bookings", "POST /", gymId, 0, body, 201, doc)
                 /\ bookings' = bookings \cup {doc}
                 /\ gymSeq' = [gymSeq EXCEPT !.booking = @ + 1, !.clock = @ + 1]
                 /\ UNCHANGED members

\* router.put('/:id'): findOneAndUpdate(filter, req.body, { new: true }) sets
\* every schema path the body names; timestamps set updatedAt.
bookings_update ==
    \E gymId \in Gyms, id \in GymIds(bookings), body \in BookingUpdates,
       ok \in BOOLEAN :
        LET found == BookingOfGym(id, gymId)
            old   == CHOOSE b \in found : TRUE
            new   == Overlay(Overlay(old, Restrict(body, BookingPaths)),
                             [updatedAt |-> NowAt(gymSeq.clock)])
        IN  IF ~ok \/ found = {}
            THEN /\ Answer("bookings", "PUT /:id", gymId, id, body,
                           IF ~ok THEN 500 ELSE 404, Null)
                 /\ UNCHANGED <<members, bookings, gymSeq>>
            ELSE /\ Answer("bookings", "PUT /:id", gymId, id, body, 200, new)
                 /\ bookings' = (bookings \ {old}) \cup {new}
                 /\ gymSeq' = [gymSeq EXCEPT !.clock = @ + 1]
                 /\ UNCHANGED members

\* router.delete('/:id')
bookings_delete ==
    \E gymId \in Gyms, id \in GymIds(bookings), ok \in BOOLEAN :
        LET found == BookingOfGym(id, gymId)
        IN  IF ~ok \/ found = {}
            THEN /\ Answer("bookings", "DELETE /:id", gymId, id, Null,
                           IF ~ok THEN 500 ELSE 404, Null)
                 /\ UNCHANGED <<members, bookings, gymSeq>>
            ELSE /\ Answer("bookings", "DELETE /:id", gymId, id, Null, 200, Null)
                 /\ bookings' = bookings \ found
                 /\ UNCHANGED <<members, gymSeq>>

\* ------------------------------------------------------------------ add-customer form

\* What the user can put into the fields of AddCustomerModal.
FormChoices ==
    [membershipStartDate |->
         {MkDate(2024, 1, 15, 0), MkDate(2024, 1, 31, 0), MkDate(2024, 11, 30, 0)},
     membershipDuration |-> {-1, 0, 1, 3, 12},
     membershipFees |-> {0, 50}]

\* defaultValues of useForm: the fields the end date depends on, and the fees.
\* new Date() is the moment the modal is rendered.
defaultValues ==
    [membershipFees |-> 0, membershipDuration |-> 0,
     membershipStartDate |-> NowAt(0), membershipEndDate |-> Null]

\* formSchema: z.number().min(0) for the fees and the duration.
formSchema(values) ==
    /\ values.membershipFees >= 0
    /\ values.membershipDuration >= 0

\* The form.watch subscription: after membershipStartDate or membershipDuration
\* changed, membershipEndDate is set when the duration is positive.
watchEndDate(values, name) ==
    IF /\ name \in {"membershipStartDate", "membershipDuration"}
       /\ values.membershipDuration > 0
    THEN [values EXCEPT !.membershipEndDate =
              setMonth(values.membershipStartDate,
                       getMonth(values.membershipStartDate) + values.membershipDuration)]
    ELSE values

FormClosed ==
    [isOpen |-> FALSE, values |-> defaultValues, at |-> "editing",
     isSubmitting |-> FALSE, sent |-> Null, transaction |-> Null,
     toast |-> "", submitsLeft |-> 0]

\* The parent opens the modal.
AddCustomerModal_open ==
    /\ ~form.isOpen
    /\ form.at = "editing"
    /\ form' = [form EXCEPT !.isOpen = TRUE]
    /\ UNCHANGED <<assignmentVars, gymVars, hook>>

\* The user changes one field.
AddCustomerModal_setValue ==
    /\ form.isOpen
    /\ form.at = "editing"
    /\ \E name \in DOMAIN FormChoices :
       \E value \in FormChoices[name] :
           /\ form.values[name] # value
           /\ form' = [form EXCEPT
                  !.values = watchEndDate([form.values EXCEPT ![name] = value], name)]
    /\ UNCHANGED <<assignmentVars, gymVars, hook>>

\* handleSubmit(onSubmit), up to the call of CustomerService.createCustomer:
\*   endDate = new Date(values.membershipStartDate);
\*   endDate.setMonth(endDate.getMonth() + values.membershipDuration);
onSubmit ==
    /\ form.isOpen
    /\ form.at = "editing"
    /\ form.submitsLeft > 0
    /\ formSchema(form.values)
    /\ form' = [form EXCEPT
           !.at = "createCustomer",
           !.isSubmitting = TRUE,
           !.submitsLeft = @ - 1,
           !.transaction = Null,
           !.toast = "",
           !.sent = [membershipFees |-> form.values.membershipFees,
                     membershipDuration |-> form.values.membershipDuration,
                     membershipStartDate |-> form.values.membershipStartDate,
                     membershipEndDate |->
                         setMonth(form.values.membershipStartDate,
                                  getMonth(form.values.membershipStartDate)
                                      + form.values.membershipDuration),
                     totalSpent |-> form.values.membershipFees]]
    /\ UNCHANGED <<assignmentVars, gymVars, hook>>

\* createCustomer answered: with a customer (the joining transaction is sent),
\* without success (nothing more happens), or by throwing (error toast).
onSubmit_createCustomer ==
    /\ form.at = "createCustomer"
    /\ \E outcome \in {"success", "failure", "throws"} :
           form' = CASE outcome = "success" ->
                         [form EXCEPT
                             !.at = "createTransaction",
                             !.transaction =
                                 [transactionType |-> "MEMBERSHIP_JOINING",
                                  amount |-> form.values.membershipFees,
                                  from |-> form.values.membershipStartDate,
                                  to |-> form.sent.membershipEndDate,
                                  status |-> "SUCCESS"]]
                     [] outcome = "failure" ->
                         [form EXCEPT !.at = "editing", !.isSubmitting = FALSE]
                     [] OTHER ->
                         [form EXCEPT !.at = "editing", !.isSubmitting = FALSE,
                                      !.toast = "Error"]
    /\ UNCHANGED <<assignmentVars, gymVars, hook>>

\* createTransaction (and the query invalidations after it) answered: the
\* success toast, onClose() and form.reset(), or the error toast.
onSubmit_createTransaction ==
    /\ form.at = "createTransaction"
    /\ \E outcome \in {"success", "throws"} :
           form' = IF outcome = "success"
                   THEN [form EXCEPT !.at = "editing", !.isSubmitting = FALSE,
                                     !.toast = "Success", !.isOpen = FALSE,
                                     !.values = defaultValues]
                   ELSE [form EXCEPT !.at = "editing", !.isSubmitting = FALSE,
                                     !.toast = "Error"]
    /\ UNCHANGED <<assignmentVars, gymVars, hook>>

\* ------------------------------------------------------------------ useRequireAuth

redirectTo == "/login"

\* window.location.pathname of the pages the hook is mounted on.
Pathnames == {"/", "/settings", "/dashboard", "/customers/42", "/login"}

protectedPaths ==
    {"/dashboard", "/customers", "/membership-plans", "/trainers",
     "/class-schedules", "/nutrition-plans", "/events-workshops",
     "/waiver-forms", "/member-communications", "/health-assessments"}

\* protectedPaths.some(path => window.location.pathname.includes(path))
isProtectedPage(pathname) == \E path \in protectedPaths : Contains(pathname, path)

HookUnmounted ==
    [mounted |-> FALSE, pathname |-> "/", isLoading |-> TRUE,
     isAuthenticated |-> FALSE, initialLoad |-> TRUE, renderPending |-> FALSE,
     deps |-> Null, navigations |-> 0, toasts |-> 0, eventsLeft |-> 0]

\* A component calling the hook is mounted on a page: useState(true), no effect
\* has run yet, the first render is pending.
Mounted(h, pathname) ==
    [h EXCEPT !.mounted = TRUE, !.pathname = pathname, !.initialLoad = TRUE,
              !.renderPending = TRUE, !.deps = Null]

\* The visitor opens another page whose component calls the hook.
useRequireAuth_mount ==
    /\ hook.eventsLeft > 0
    /\ \E pathname \in Pathnames \ {hook.pathname} :
           hook' = [Mounted(hook, pathname) EXCEPT !.eventsLeft = @ - 1]
    /\ UNCHANGED <<assignmentVars, gymVars, form>>

\* AuthContext changes what useAuth() returns; the component renders again.
AuthContext_change ==
    /\ hook.eventsLeft > 0
    /\ \E isLoading \in BOOLEAN, isAuthenticated \in BOOLEAN :
           /\ <<isLoading, isAuthenticated>> # <<hook.isLoading, hook.isAuthenticated>>
           /\ hook' = [hook EXCEPT !.isLoading = isLoading,
                                   !.isAuthenticated = isAuthenticated,
                                   !.renderPending = TRUE,
                                   !.eventsLeft = @ - 1]
    /\ UNCHANGED <<assignmentVars, gymVars, form>>

\* The condition under which the second effect toasts and navigates, on the
\* values of the render the effect belongs to.
ShouldRedirect_Everywhere(r, pathname) ==
    ~r.initialLoad /\ ~r.isLoading /\ ~r.isAuthenticated
ShouldRedirect(r, pathname) ==
    /\ ~r.initialLoad /\ ~r.isLoading /\ ~r.isAuthenticated
    /\ ~isProtectedPage(pathname)

\* One render of the component with the effects of its commit. An effect runs
\* after the first render and whenever one of its dependencies differs from
\* the previous render's (navigate, redirectTo and toast keep their identity).
\*   effect 1, [isLoading]: if (!isLoading) setInitialLoad(false)
\*   effect 2, [isAuthenticated, isLoading, ..., initialLoad]: the redirect
useRequireAuth_render ==
    /\ hook.mounted
    /\ hook.renderPending
    /\ LET r    == [isLoading |-> hook.isLoading,
                    isAuthenticated |-> hook.isAuthenticated,
                    initialLoad |-> hook.initialLoad]
           run1 == hook.deps = Null \/ hook.deps.isLoading # r.isLoading
           run2 == hook.deps = Null \/ hook.deps # r
           set  == run1 /\ ~r.isLoading
           go   == run2 /\ ShouldRedirect(r, hook.pathname)
       IN  hook' = [hook EXCEPT
               !.deps = r,
               !.initialLoad = IF set THEN FALSE ELSE @,
               !.renderPending = set /\ r.initialLoad,
               !.toasts = IF go THEN @ + 1 ELSE @,
               !.navigations = IF go THEN @ + 1 ELSE @,
               !.pathname = IF go THEN redirectTo ELSE @]
    /\ UNCHANGED <<assignmentVars, gymVars, form>>

\* ------------------------------------------------------------------ initial states

\* The empty store.
EmptyState ==
    [assignments |-> {},
     customers |-> [c \in Customers |-> [personalTrainer |-> Null, totalSpent |-> 0]],
     invoices |-> {}, transactions |-> {},
     nextId |-> [assignment |-> 1, invoice |-> 1, transaction |-> 1],
     clock |-> 0, paid |-> [c \in Customers |-> 0], issued |-> <<>>]

\* The store a createAssignment(body) answered 201 leaves, starting empty.
AfterCreate(body) ==
    LET a    == AssignmentDoc(1, body)
        inv0 == NewCreateInvoice(1, body, body.startDate, NowAt(1))
        inv  == [inv0 EXCEPT !.invoiceNumber = HookedNumber(inv0, Null)]
        txn  == NewTransaction(1, [op |-> "create", body |-> body],
                               body.customerId, inv, NowAt(2))
    IN  [assignments |-> {a},
         customers |-> IncTotalSpent(
                           SetPersonalTrainer(EmptyState.customers, body.customerId, a),
                           body.customerId, body.fees),
         invoices |-> {inv}, transactions |-> {txn},
         nextId |-> [assignment |-> 2, invoice |-> 2, transaction |-> 2],
         clock |-> 2,
         paid |-> [EmptyState.paid EXCEPT ![body.customerId] = body.fees],
         issued |-> <<parseInt(MatchINV(inv.invoiceNumber))>>]

\* The assignment the store holds when the workload starts.
FirstBody == Body(<<"c1", "g1", MkDate(2024, 1, 15, 0), 3>>, 10)

\* An invoice another route stored (a membership invoice of a customer outside
\* this workload), by its number: the most recently created invoice of the store.
SeedNumbers == {"INV00041", "INV99999", "INV100000", "M-2024-7", "XINV12A3"}
SeedInvoice(number, now) ==
    [id |-> 0, userId |-> AuthUser, gymId |-> "g1", customerId |-> "c0",
     invoiceNumber |-> number, amount |-> 50, currency |-> "INR",
     dueDate |-> addDays(now, 7),
     items |-> <<[description |-> "Membership fees", quantity |-> 1,
                  unitPrice |-> [num |-> 50, den |-> 1], amount |-> 50]>>,
     notes |-> "", createdAt |-> now, updatedAt |-> now]

WithSeed(st, number) ==
    [st EXCEPT !.invoices = @ \cup {SeedInvoice(number, NowAt(st.clock + 1))},
               !.clock = @ + 1]

InitWith(st) ==
    /\ assignments = st.assignments
    /\ customers = st.customers
    /\ invoices = st.invoices
    /\ transactions = st.transactions
    /\ nextId = st.nextId
    /\ clock = st.clock
    /\ paid = st.paid
    /\ issued = st.issued
    /\ pc = [p \in Procs |-> "idle"]
    /\ req = [p \in Procs |-> NoReq]
    /\ loc = [p \in Procs |-> NoLoc]
    /\ resp = [p \in Procs |-> NoResp]
    /\ pre = [p \in Procs |-> Null]
    /\ errorsLeft = MaxErrors

\* The members and bookings routes receive no request.
GymIdle ==
    /\ members = {}
    /\ bookings = {}
    /\ call = NoCall
    /\ callsLeft = 0
    /\ gymSeq = [member |-> 1, booking |-> 1, clock |-> 0]

\* The assignment routes receive no request.
AssignmentsIdle ==
    /\ InitWith(EmptyState)
    /\ opsLeft = 0
    /\ sched = "sequential"

\* Concurrent requests against a store that holds one assignment.
Init ==
    /\ GymIdle /\ form = FormClosed /\ hook = HookUnmounted
    /\ InitWith(AfterCreate(FirstBody))
    /\ opsLeft = MaxOps
    /\ sched = "concurrent"

\* One request at a time against a store that holds one assignment.
InitSeq ==
    /\ GymIdle /\ form = FormClosed /\ hook = HookUnmounted
    /\ InitWith(AfterCreate(FirstBody))
    /\ opsLeft = MaxOpsSeq
    /\ sched = "sequential"

\* One request at a time against the empty store, or against a store whose
\* most recent invoice came from another route (with or without an assignment
\* stored before it).
InitSeeded ==
    /\ GymIdle /\ form = FormClosed /\ hook = HookUnmounted
    /\ \E st \in {EmptyState}
                  \cup {WithSeed(EmptyState, n) : n \in SeedNumbers}
                  \cup {WithSeed(AfterCreate(FirstBody), n) : n \in SeedNumbers} :
         InitWith(st)
    /\ opsLeft = MaxOpsSeeded
    /\ sched = "sequential"

\* ------------------------------------------------------------------ specification

Next ==
    \E p \in Procs :
        \/ createAssignment_begin(p)
        \/ createAssignment_save(p)
        \/ createAssignment_findById(p)
        \/ createAssignment_snapshot(p)
        \/ Invoice_preValidate(p)
        \/ Invoice_insert(p)
        \/ createAssignment_txnSave(p)
        \/ createAssignment_inc(p)
        \/ updateAssignment_begin(p)
        \/ updateAssignment_findAndUpdate(p)
        \/ updateAssignment_snapshot(p)
        \/ updateAssignment_invFind(p)
        \/ updateAssignment_invSave(p)
        \/ updateAssignment_txnFind(p)
        \/ updateAssignment_txnSave(p)
        \/ deleteAssignment_begin(p)
        \/ deleteAssignment_find(p)
        \/ deleteAssignment_unset(p)
        \/ deleteAssignment_delInvoices(p)
        \/ deleteAssignment_delTxns(p)
        \/ deleteAssignment_delAssignment(p)
        \/ renewAssignment_begin(p)
        \/ renewAssignment_findAndUpdate(p)
        \/ renewAssignment_snapshot(p)
        \/ renewAssignment_txnSave(p)
        \/ renewAssignment_inc(p)
        \/ getExpiringAssignments_begin(p)
        \/ getExpiringAssignments_find(p)
        \/ StoreError(p)
        \/ Finish(p)

Spec == Init /\ [][Next]_vars
SpecSeq == InitSeq /\ [][Next]_vars
SpecSeeded == InitSeeded /\ [][Next]_vars

\* The add-customer form, opened and submitted up to MaxSubmits times.
InitForm ==
    /\ AssignmentsIdle /\ GymIdle /\ hook = HookUnmounted
    /\ form = [FormClosed EXCEPT !.submitsLeft = MaxSubmits]

NextForm ==
    \/ AddCustomerModal_open
    \/ AddCustomerModal_setValue
    \/ onSubmit
    \/ onSubmit_createCustomer
    \/ onSubmit_createTransaction

SpecForm == InitForm /\ [][NextForm]_vars

\* Requests of two gyms to the members and bookings routes, one at a time (each
\* route awaits one store operation), against a store that holds a member and
\* a booking of each gym.
InitTenant ==
    /\ AssignmentsIdle /\ form = FormClosed /\ hook = HookUnmounted
    /\ members = {Overlay([id |-> 1, gymId |-> "g1"], MemberBody("Seed", "active")),
                  Overlay([id |-> 2, gymId |-> "g2"], MemberBody("Seed", "active"))}
    /\ bookings = {NewBooking(1, BookingBody, "u1", "g1", NowAt(1)),
                   NewBooking(2, BookingBody, "u2", "g2", NowAt(2))}
    /\ gymSeq = [member |-> 3, booking |-> 3, clock |-> 3]
    /\ call = NoCall
    /\ callsLeft = MaxCalls

NextTenant ==
    \/ members_list
    \/ members_get
    \/ members_create
    \/ members_update
    \/ members_delete
    \/ bookings_list
    \/ bookings_calendar
    \/ bookings_get
    \/ bookings_create
    \/ bookings_update
    \/ bookings_delete

SpecTenant == InitTenant /\ [][NextTenant]_vars

\* A page whose component calls useRequireAuth, under any course of the
\* authentication context.
InitAuth ==
    /\ AssignmentsIdle /\ GymIdle /\ form = FormClosed
    /\ \E pathname \in Pathnames, isLoading \in BOOLEAN, isAuthenticated \in BOOLEAN :
           hook = [Mounted(HookUnmounted, pathname) EXCEPT
                       !.isLoading = isLoading,
                       !.isAuthenticated = isAuthenticated,
                       !.eventsLeft = MaxAuthEvents]

NextAuth ==
    \/ useRequireAuth_mount
    \/ AuthContext_change
    \/ useRequireAuth_render

SpecAuth == InitAuth /\ [][NextAuth]_vars

\* ------------------------------------------------------------------ properties

Done(p, op) == pc[p] = "done" /\ req[p].op = op
Answered(p, op, status) == Done(p, op) /\ resp[p].status = status

\* ---- C1

\* Days of month m (1..12) of year y.
DaysInMonth(y, m) ==
    (IF m = 12 THEN DaysFromCivil(y + 1, 1, 1) ELSE DaysFromCivil(y, m + 1, 1))
    - DaysFromCivil(y, m, 1)

\* t advanced by n calendar months: the same day of the month n months later,
\* the last day of that month when it has no such day.
AddCalendarMonths(t, n) ==
    LET c   == CivilFromDays(t.day)
        idx == (c.m - 1) + n
        y   == c.y + (idx \div 12)
        m   == (idx % 12) + 1
        d   == IF c.d <= DaysInMonth(y, m) THEN c.d ELSE DaysInMonth(y, m)
    IN  [day |-> DaysFromCivil(y, m, d), ms |-> t.ms]

CalendarEndDate(start, duration) ==
    addDays(AddCalendarMonths(start, duration), -1)

\* C1: the assignment a successful createAssignment or updateAssignment stored
\* has endDate = startDate advanced by duration calendar months, minus one day,
\* for every start date (also the 29th, 30th, 31st).
C1_EndDateIsMonthsMinusOneDay ==
    \A p \in Procs :
        (Answered(p, "create", 201) \/ Answered(p, "update", 200)) =>
            \A a \in assignments :
                a.id = loc[p].assignment.id =>
                    a.endDate = CalendarEndDate(req[p].body.startDate,
                                                req[p].body.duration)

\* ---- C2

\* C2: totalSpent of every customer is the sum of the fees of the creates and
\* renews answered 201 / 200 for that customer, and a successful create or
\* renew left totalSpent exactly its fees above the value it found.
C2_TotalSpentAccumulatesFees ==
    /\ \A c \in Customers : customers[c].totalSpent = paid[c]
    /\ \A p \in Procs :
         (Answered(p, "create", 201) \/ Answered(p, "renew", 200)) =>
            LET c == loc[p].assignment.customerId
            IN  customers[c].totalSpent
                    = pre[p].customers[c].totalSpent + req[p].body.fees

\* A renew answered 200 for a customer whose earlier create was already paid.
C2_Witness ==
    \E p \in Procs :
        /\ Answered(p, "renew", 200)
        /\ pre[p].customers[loc[p].assignment.customerId].totalSpent > 0
        /\ customers[loc[p].assignment.customerId].totalSpent
              = pre[p].customers[loc[p].assignment.customerId].totalSpent + 25

\* ---- C3

\* C3: the counter of each generated invoice number is strictly greater than
\* the counter of every number generated before it.
C3_NumbersStrictlyIncrease ==
    \A i, j \in DOMAIN issued : i < j => issued[i] < issued[j]

\* ---- C4

\* C4: no two stored invoices have the same invoiceNumber.
C4_InvoiceNumbersUnique ==
    \A i, j \in invoices : i.invoiceNumber = j.invoiceNumber => i = j

\* Two concurrent saves computed the same number; the second insert was
\* rejected by the index.
C4_Witness ==
    \E p \in Procs :
        /\ pc[p] = "done" /\ resp[p].status = 500
        /\ errorsLeft = MaxErrors
        /\ loc[p].invoice # Null
        /\ loc[p].invoice.invoiceNumber # ""
        /\ \E i \in invoices : /\ i.invoiceNumber = loc[p].invoice.invoiceNumber
                               /\ i.id # loc[p].invoice.id

\* ---- C5

AllDigits(s) == \A k \in 1..Len(s) : IsDigit(CharAt(s, k))

\* The invoices of the store that got their number from the hooks.
Generated == {i \in invoices : i.id # 0}

\* The slot's save is between the hook's read of the last invoice and the insert.
NumberJustGenerated(p) == pc[p] = "inv_insert"

\* C5 as stated: every generated number is INV and exactly 5 digits, and a save
\* into an empty store, or after an invoice whose number has no INV<digits>,
\* gives INV00001.
C5_ExactlyFiveDigits ==
    /\ \A i \in Generated :
         /\ Len(i.invoiceNumber) = 8
         /\ SubSeq(i.invoiceNumber, 1, 3) = "INV"
         /\ AllDigits(SubSeq(i.invoiceNumber, 4, 8))
    /\ \A p \in Procs :
         (NumberJustGenerated(p)
            /\ \A last \in LastInvoices(invoices) :
                   last = Null \/ MatchINV(last.invoiceNumber) = "") =>
             loc[p].invoice.invoiceNumber = "INV00001"

\* C5, amended: every generated number is INV and the counter in decimal,
\* padded with zeros on the left to at least 5 digits: exactly 5 digits up to
\* 99999, the counter's own digits (no padding) above; and a save into an empty
\* store, or after an invoice whose number has no INV<digits>, gives INV00001.
C5_AtLeastFiveDigits ==
    /\ \A i \in Generated :
         LET n == i.invoiceNumber
             digits == SubSeq(n, 4, Len(n))
         IN  /\ SubSeq(n, 1, 3) = "INV"
             /\ Len(digits) >= 5
             /\ AllDigits(digits)
             /\ Len(digits) > 5 => CharAt(digits, 1) # "0"
             /\ parseInt(digits) >= 1
             /\ parseInt(digits) <= 99999 => Len(digits) = 5
    /\ \A p \in Procs :
         (NumberJustGenerated(p)
            /\ \A last \in LastInvoices(invoices) :
                   last = Null \/ MatchINV(last.invoiceNumber) = "") =>
             loc[p].invoice.invoiceNumber = "INV00001"

\* INV00001 was generated and stored after an invoice whose number does not
\* match.
C5_Witness ==
    \E i \in Generated, last \in invoices :
        /\ last.id = 0 /\ MatchINV(last.invoiceNumber) = ""
        /\ last.createdAt # i.createdAt /\ DateLte(last.createdAt, i.createdAt)
        /\ i.invoiceNumber = "INV00001"

\* ---- C6

\* C6: after a deleteAssignment answered 200 the customer of the deleted
\* assignment has no personalTrainer reference.
C6_DeleteUnsetsSnapshot ==
    \A p \in Procs :
        Answered(p, "delete", 200) =>
            customers[loc[p].assignment.customerId].personalTrainer = Null

\* The delete removed a snapshot that referred to another, still stored,
\* assignment of the customer.
C6_Witness ==
    \E p \in Procs :
        /\ Answered(p, "delete", 200)
        /\ loc[p].snapshotBefore # Null
        /\ loc[p].snapshotBefore.id # req[p].id
        /\ \E a \in assignments : a.id = loc[p].snapshotBefore.id
        /\ customers[loc[p].assignment.customerId].personalTrainer = Null

\* ---- C7

Ids(docs) == {d.id : d \in docs}

\* The invoices of customer and gym with a Personal Training item that no
\* other such invoice was created after.
LatestPersonalTraining(invs, customerId, gymId) ==
    {i \in invs :
        /\ i.customerId = customerId /\ i.gymId = gymId
        /\ \E k \in 1..Len(i.items) :
               Contains(i.items[k].description, "Personal Training")
        /\ \A j \in invs :
               (/\ j.customerId = customerId /\ j.gymId = gymId
                /\ \E k \in 1..Len(j.items) :
                       Contains(j.items[k].description, "Personal Training"))
               => DateLte(j.createdAt, i.createdAt)}

\* C7: while and after an updateAssignment runs, the stored invoices and
\* transactions are the ones that were stored when it arrived (none created,
\* none removed), and every invoice but the most recently created Personal
\* Training invoice of the request's customer and gym is unchanged; that one
\* keeps its number, customer, gym and creation date.
C7_UpdateCreatesNoInvoice ==
    \A p \in Procs :
        (pc[p] # "idle" /\ req[p].op = "update") =>
            /\ Ids(invoices) = Ids(pre[p].invoices)
            /\ Ids(transactions) = Ids(pre[p].transactions)
            /\ Cardinality(invoices) = Cardinality(pre[p].invoices)
            /\ Cardinality(transactions) = Cardinality(pre[p].transactions)
            /\ \A i \in pre[p].invoices :
                 \/ i \in invoices
                 \/ /\ i \in LatestPersonalTraining(pre[p].invoices,
                                                    req[p].body.customerId,
                                                    req[p].body.gymId)
                    /\ \E j \in invoices :
                         /\ j.id = i.id
                         /\ j.invoiceNumber = i.invoiceNumber
                         /\ j.customerId = i.customerId
                         /\ j.gymId = i.gymId
                         /\ j.createdAt = i.createdAt

\* An update answered 200 that overwrote the amount of the invoice it found.
C7_Witness ==
    \E p \in Procs :
        /\ Answered(p, "update", 200)
        /\ loc[p].invoice # Null
        /\ \E i \in pre[p].invoices, j \in invoices :
             /\ i.id = loc[p].invoice.id /\ j.id = i.id
             /\ i.amount # 40 /\ j.amount = 40

\* ---- C8

\* C8: getExpiringAssignments answers exactly the stored assignments whose
\* endDate is an instant of one of the days today .. today+7 (from today
\* 00:00:00.000 to today+7 23:59:59.999), of the gym of the query when it names
\* one.
C8_ExpiringIsClosedInterval ==
    \A p \in Procs :
        Answered(p, "expiring", 200) =>
            resp[p].body.assignments =
                {a \in assignments :
                    /\ Today <= a.endDate.day
                    /\ a.endDate.day <= Today + 7
                    /\ a.endDate.ms >= 0 /\ a.endDate.ms <= 86399999
                    /\ "gymId" \in DOMAIN req[p].query
                          => a.gymId = req[p].query.gymId}

\* The answer holds an assignment that ends today at 00:00:00.000 and leaves
\* out a stored one that ended before today.
C8_Witness ==
    \E p \in Procs :
        /\ Answered(p, "expiring", 200)
        /\ \E a \in resp[p].body.assignments : a.endDate = [day |-> Today, ms |-> 0]
        /\ \E a \in assignments :
             a.endDate.day < Today /\ a \notin resp[p].body.assignments

\* ---- C9

\* C9: a renewAssignment keeps every invoice and transaction that was stored
\* when it arrived as it was, and when it is answered 200 the store holds
\* exactly one more invoice and one more transaction, the transaction being of
\* type PERSONAL_TRAINING_RENEWAL for the new invoice.
C9_RenewAppends ==
    \A p \in Procs :
        (pc[p] # "idle" /\ req[p].op = "renew") =>
            /\ pre[p].invoices \subseteq invoices
            /\ pre[p].transactions \subseteq transactions
            /\ resp[p].status = 200 =>
                 /\ Cardinality(invoices) = Cardinality(pre[p].invoices) + 1
                 /\ Cardinality(transactions) = Cardinality(pre[p].transactions) + 1
                 /\ \A t \in transactions \ pre[p].transactions :
                      /\ t.transactionType = "PERSONAL_TRAINING_RENEWAL"
                      /\ \E i \in invoices \ pre[p].invoices : t.invoiceId = i.id

\* A renew answered 200 in a store that already held a Personal Training
\* invoice and transaction of that customer and gym.
C9_Witness ==
    \E p \in Procs :
        /\ Answered(p, "renew", 200)
        /\ \E i \in pre[p].invoices :
             /\ i.customerId = loc[p].assignment.customerId
             /\ i.gymId = req[p].body.gymId
             /\ i \in invoices
        /\ \E t \in pre[p].transactions :
             /\ t.userId = loc[p].assignment.customerId
             /\ t.transactionType = "PERSONAL_TRAINING"
             /\ t \in transactions

\* ---- C10

\* C10: after a deleteAssignment answered 200 no Personal Training invoice and
\* no PERSONAL_TRAINING / PERSONAL_TRAINING_RENEWAL transaction of the
\* assignment's customer and gym is stored, the other invoices and transactions
\* are, and of the assignments only the deleted one is gone.
C10_DeleteRemovesAllOfCustomerAndGym ==
    \A p \in Procs :
        Answered(p, "delete", 200) =>
            LET c == loc[p].assignment.customerId
                g == loc[p].assignment.gymId
                Hit(i) == /\ i.customerId = c /\ i.gymId = g
                          /\ \E k \in 1..Len(i.items) :
                                 Contains(i.items[k].description, "Personal Training")
                HitT(t) == /\ t.userId = c /\ t.gymId = g
                           /\ \/ t.transactionType = "PERSONAL_TRAINING"
                              \/ t.transactionType = "PERSONAL_TRAINING_RENEWAL"
            IN  /\ invoices = {i \in pre[p].invoices : ~Hit(i)}
                /\ transactions = {t \in pre[p].transactions : ~HitT(t)}
                /\ assignments = {a \in pre[p].assignments : a.id # req[p].id}

\* The customer had two assignments in the gym: the delete of one removed two
\* invoices and two transactions, and the other assignment is still stored.
C10_Witness ==
    \E p \in Procs :
        /\ Answered(p, "delete", 200)
        /\ \E b \in assignments :
             /\ b.id # req[p].id
             /\ b.customerId = loc[p].assignment.customerId
             /\ b.gymId = loc[p].assignment.gymId
        /\ Cardinality(pre[p].invoices \ invoices) >= 2
        /\ Cardinality(pre[p].transactions \ transactions) >= 2

\* ---- C11

\* No request is being handled and none was failed by the store.
Quiescent == \A p \in Procs : pc[p] = "idle"
NoStoreError == errorsLeft = MaxErrors

\* The Personal Training invoices of the assignment's customer and gym that no
\* other such invoice was created after.
CurrentInvoices(a) == LatestPersonalTraining(invoices, a.customerId, a.gymId)

\* The personal training transactions (first payment or renewal) of the
\* assignment's customer and gym that no other such transaction was created
\* after.
CurrentTransactions(a) ==
    LET Mine(t) == /\ t.userId = a.customerId /\ t.gymId = a.gymId
                   /\ \/ t.transactionType = "PERSONAL_TRAINING"
                      \/ t.transactionType = "PERSONAL_TRAINING_RENEWAL"
    IN  {t \in transactions :
            /\ Mine(t)
            /\ \A u \in transactions : Mine(u) => DateLte(u.createdAt, t.createdAt)}

\* C11: when every create, update, renew and delete issued so far has
\* completed (none failed by the store), every stored assignment has exactly
\* one current invoice and exactly one current transaction, each with the
\* assignment's fees as its amount.
C11_OneCurrentInvoiceAndTransaction ==
    (Quiescent /\ NoStoreError) =>
        \A a \in assignments :
            /\ Cardinality(CurrentInvoices(a)) = 1
            /\ \A i \in CurrentInvoices(a) : i.amount = a.fees
            /\ Cardinality(CurrentTransactions(a)) = 1
            /\ \A t \in CurrentTransactions(a) : t.amount = a.fees

\* ---- C12

RECURSIVE SumAmounts(_)
SumAmounts(docs) ==
    IF docs = {} THEN 0
    ELSE LET d == CHOOSE x \in docs : TRUE
         IN  d.amount + SumAmounts(docs \ {d})

\* The stored personal training transactions of a customer.
LedgerOf(c) ==
    {t \in transactions :
        /\ t.userId = c
        /\ \/ t.transactionType = "PERSONAL_TRAINING"
           \/ t.transactionType = "PERSONAL_TRAINING_RENEWAL"}

\* C12: when every create, update, renew and delete issued so far has
\* completed (none failed by the store), totalSpent of every customer is the
\* sum of the amounts of the customer's stored personal training transactions.
C12_TotalSpentIsLedgerSum ==
    (Quiescent /\ NoStoreError) =>
        \A c \in Customers : customers[c].totalSpent = SumAmounts(LedgerOf(c))

\* ---- C13

RequiredOfCreate == {"customerId", "trainerId", "gymId", "startDate", "duration", "fees"}
RequiredOfRenew == {"startDate", "duration", "endDate", "fees", "gymId"}

\* The request at slot p lacks one of the fields its handler requires.
LacksRequiredField(p) ==
    \/ /\ req[p].op \in {"create", "update"}
       /\ \E f \in RequiredOfCreate : f \notin DOMAIN req[p].body
    \/ /\ req[p].op = "renew"
       /\ \E f \in RequiredOfRenew : f \notin DOMAIN req[p].body

\* C13: a createAssignment, updateAssignment or renewAssignment whose request
\* lacks a required field is answered 400 and wrote nothing: assignments,
\* customers, invoices and transactions are as they were when it arrived.
C13_MissingFieldIs400AndWritesNothing ==
    \A p \in Procs :
        (pc[p] # "idle" /\ LacksRequiredField(p)) =>
            /\ pc[p] = "done"
            /\ resp[p].status = 400
            /\ StoreNow = pre[p]

\* A renew without endDate of a stored assignment was answered 400.
C13_Witness ==
    \E p \in Procs :
        /\ Answered(p, "renew", 400)
        /\ "endDate" \notin DOMAIN req[p].body
        /\ \E a \in assignments : a.id = req[p].id

\* ---- C14

\* The request at slot p names an id that matched no assignment when it
\* arrived, and its body passed the handler's validation.
NamesNoAssignment(p) ==
    /\ req[p].op \in {"update", "renew", "delete"}
    /\ \A a \in pre[p].assignments : a.id # req[p].id
    /\ req[p].op # "delete" => resp[p].status # 400

\* C14: an updateAssignment, renewAssignment or deleteAssignment whose id
\* matches no stored assignment leaves every customer (snapshot and
\* totalSpent), invoice and transaction (and assignment) unchanged, and is
\* answered 404 (500 only when the store failed the lookup itself).
C14_UnknownIdIs404AndWritesNothing ==
    \A p \in Procs :
        (pc[p] # "idle" /\ NamesNoAssignment(p)) =>
            /\ StoreNow = pre[p]
            /\ pc[p] = "done" =>
                 \/ resp[p].status = 404
                 \/ resp[p].status = 500 /\ errorsLeft < MaxErrors

\* An updateAssignment with a complete body was answered 404 for an id that
\* names no assignment, in a store that holds one.
C14_Witness ==
    \E p \in Procs :
        /\ Answered(p, "update", 404)
        /\ NamesNoAssignment(p)
        /\ assignments # {}
        /\ errorsLeft = MaxErrors

\* ---- C15

\* The writes of the create at slot p that the store shows.
AssignmentWritten(p) == loc[p].assignment.id \in Ids(assignments)
SnapshotWritten(p) ==
    LET s == customers[req[p].body.customerId].personalTrainer
    IN  s # Null /\ s.id = loc[p].assignment.id
InvoiceWritten(p) == loc[p].invoice # Null /\ loc[p].invoice.id \in Ids(invoices)
TransactionWritten(p) ==
    loc[p].transaction # Null /\ loc[p].transaction.id \in Ids(transactions)
TotalIncremented(p) ==
    customers[req[p].body.customerId].totalSpent
        # pre[p].customers[req[p].body.customerId].totalSpent

\* C15: in every state of a createAssignment (one request at a time) its
\* writes are a prefix of: assignment insert, personalTrainer overwrite,
\* invoice insert, transaction insert, totalSpent increment.  The transaction
\* is stored only if the invoice is, the invoice only if the snapshot and the
\* assignment are, and totalSpent differs from its value at arrival only if
\* the transaction is stored; a create answered 201 made all five.
C15_CreateWritesInOrder ==
    \A p \in Procs :
        (pc[p] # "idle" /\ req[p].op = "create" /\ loc[p].assignment # Null
           /\ req[p].body.customerId \in Customers) =>
            /\ TotalIncremented(p) => TransactionWritten(p)
            /\ TransactionWritten(p) => InvoiceWritten(p)
            /\ InvoiceWritten(p) => SnapshotWritten(p)
            /\ SnapshotWritten(p) => AssignmentWritten(p)
            /\ TotalIncremented(p) =>
                 customers[req[p].body.customerId].totalSpent
                    = pre[p].customers[req[p].body.customerId].totalSpent
                      + req[p].body.fees
            /\ resp[p].status = 201 => TotalIncremented(p)

\* A create between its invoice insert and its transaction insert: assignment,
\* snapshot and invoice are stored, the transaction and the increment are not.
C15_Witness ==
    \E p \in Procs :
        /\ req[p].op = "create" /\ pc[p] = "c_txnSave"
        /\ AssignmentWritten(p) /\ SnapshotWritten(p) /\ InvoiceWritten(p)
        /\ ~TransactionWritten(p) /\ ~TotalIncremented(p)

\* ---- C16

\* The awaits of createAssignment that follow the assignment insert.
AfterAssignmentInsert ==
    {"c_findById", "c_snapshot", "inv_preValidate", "inv_insert", "c_txnSave", "c_inc"}

\* The writes createAssignment has made when it is suspended at its current await.
EarlierWritesStored(p) ==
    /\ AssignmentWritten(p)
    /\ pc[p] \in {"inv_preValidate", "inv_insert", "c_txnSave", "c_inc"}
          => SnapshotWritten(p)
    /\ pc[p] \in {"c_txnSave", "c_inc"} => InvoiceWritten(p)
    /\ pc[p] = "c_inc" => TransactionWritten(p)

\* The writes createAssignment makes at its current await and after it.
LaterWritesAbsent(p) ==
    /\ ~TotalIncremented(p)
    /\ pc[p] \in (AfterAssignmentInsert \ {"c_inc"}) => ~TransactionWritten(p)
    /\ pc[p] \in {"c_findById", "c_snapshot", "inv_preValidate", "inv_insert"}
          => ~InvoiceWritten(p)
    /\ pc[p] \in {"c_findById", "c_snapshot"} => ~SnapshotWritten(p)

\* A step in which the create at slot p, suspended after its assignment
\* insert, ends without its 201.
CreateFails(p) ==
    /\ req[p].op = "create"
    /\ pc[p] \in AfterAssignmentInsert
    /\ pc'[p] = "done"
    /\ resp'[p].status # 201

\* C16: when a createAssignment fails at an await after its assignment insert
\* (one request at a time), the step answers 500 and changes nothing in the
\* store: the assignment and every write made before the failing await stay
\* stored, the writes of the failing await and of the later ones are absent;
\* and once answered 500 the request makes no further step but the delivery of
\* the response, with no write.
C16_FailedCreateKeepsEarlierWrites ==
    [][\A p \in Procs :
          /\ CreateFails(p) =>
               /\ resp'[p].status = 500
               /\ store' = store
               /\ EarlierWritesStored(p)
               /\ LaterWritesAbsent(p)
          /\ Answered(p, "create", 500) =>
               /\ store' = store
               /\ pc'[p] \in {"done", "idle"}]_vars

\* A create answered 500 after its invoice insert: assignment, snapshot and
\* invoice are stored, no transaction, totalSpent as at arrival.
C16_Witness ==
    \E p \in Procs :
        /\ Answered(p, "create", 500)
        /\ AssignmentWritten(p) /\ SnapshotWritten(p) /\ InvoiceWritten(p)
        /\ ~TransactionWritten(p) /\ ~TotalIncremented(p)

\* ---- C17

\* The invoice insert of slot p is about to be rejected: a stored invoice has
\* the number the hook computed.
InsertCollides(p) ==
    /\ pc[p] = "inv_insert"
    /\ \E i \in invoices : i.invoiceNumber = loc[p].invoice.invoiceNumber

\* The request at slot p ended at its invoice insert.
EndedAtInvoiceInsert(p) ==
    /\ pc[p] = "done" /\ req[p].op \in {"create", "renew"}
    /\ resp[p].status = 500
    /\ loc[p].invoice # Null /\ loc[p].invoice.invoiceNumber # ""
    /\ loc[p].transaction = Null

\* C17: an invoice insert whose number is already stored is rejected and not
\* retried: the slot stays at the insert until its step, which answers 500,
\* keeps the number it computed and changes nothing in the store (the
\* assignment write and the snapshot are not undone); the request then makes no
\* further step but the delivery of the response, and neither its invoice nor
\* a transaction for it is ever stored.
C17_CollidingInsertIsRejectedNotRetried ==
    /\ [][\A p \in Procs :
            /\ InsertCollides(p) =>
                 /\ loc'[p].invoice = loc[p].invoice
                 /\ \/ pc'[p] = "inv_insert"
                    \/ /\ pc'[p] = "done" /\ resp'[p].status = 500
                       /\ store' = store
            /\ EndedAtInvoiceInsert(p) => pc'[p] \in {"done", "idle"}]_vars
    /\ [](\A p \in Procs :
            EndedAtInvoiceInsert(p) =>
                /\ ~InvoiceWritten(p)
                /\ \A t \in transactions : t.invoiceId # loc[p].invoice.id)

\* Two concurrent creates computed the same number; the second insert was
\* rejected (no store failure was injected); its assignment and snapshot are
\* stored, without invoice, transaction or totalSpent increment.
C17_Witness ==
    \E p \in Procs :
        /\ EndedAtInvoiceInsert(p) /\ req[p].op = "create"
        /\ errorsLeft = MaxErrors
        /\ \E i \in invoices : /\ i.invoiceNumber = loc[p].invoice.invoiceNumber
                               /\ i.id # loc[p].invoice.id
        /\ AssignmentWritten(p) /\ SnapshotWritten(p)
        /\ ~InvoiceWritten(p) /\ ~TransactionWritten(p) /\ ~TotalIncremented(p)

\* ---- C18

\* The step of slot p is the snapshot write of its renew / of its delete.
RenewWritesSnapshot(p) == pc[p] = "r_snapshot" /\ pc'[p] = "inv_preValidate"
DeleteUnsetsSnapshot(p) == pc[p] = "d_unset" /\ pc'[p] = "d_delInvoices"

\* C18: with renewAssignment and deleteAssignment (and the other handlers)
\* running concurrently, the snapshot write of a renew leaves the customer's
\* personalTrainer as the renewed assignment and the one of a delete leaves it
\* unset, whatever the other request has done meanwhile; and no step but a
\* snapshot write of some request changes personalTrainer, so its final value
\* is what the last snapshot write left.
C18_SnapshotIsLastWrite ==
    [][/\ \A p \in Procs :
            /\ RenewWritesSnapshot(p) =>
                 customers'[loc[p].assignment.customerId].personalTrainer
                    = loc[p].assignment
            /\ DeleteUnsetsSnapshot(p) =>
                 customers'[loc[p].assignment.customerId].personalTrainer = Null
       /\ \A c \in Customers :
            customers'[c].personalTrainer # customers[c].personalTrainer =>
                \E p \in Procs :
                    /\ pc[p] \in {"c_snapshot", "u_snapshot", "r_snapshot", "d_unset"}
                    /\ pc'[p] # pc[p]]_vars

\* A renew and a delete of the same assignment, both answered 200, in an order
\* no serial execution has: the assignment is deleted and the customer's
\* personalTrainer is the renewed assignment (the renew's write came last).
C18_Witness ==
    \E p, q \in Procs :
        /\ Answered(p, "renew", 200) /\ Answered(q, "delete", 200)
        /\ req[p].id = req[q].id
        /\ \A a \in assignments : a.id # req[p].id
        /\ customers[loc[p].assignment.customerId].personalTrainer = loc[p].assignment

\* The same two requests with the delete's write last: personalTrainer is
\* unset although the renew was answered 200.
C18_WitnessUnset ==
    \E p, q \in Procs :
        /\ Answered(p, "renew", 200) /\ Answered(q, "delete", 200)
        /\ req[p].id = req[q].id
        /\ customers[loc[p].assignment.customerId].personalTrainer = Null
        /\ \E i \in invoices : i.id = loc[p].invoice.id

\* ---- C19

\* The invoices / transactions that updateAssignment's queries match, in the
\* store as it was when the request at slot p arrived.
InvoicesForUpdate(p) ==
    {i \in pre[p].invoices :
        /\ i.customerId = req[p].body.customerId /\ i.gymId = req[p].body.gymId
        /\ \E k \in 1..Len(i.items) :
               Contains(i.items[k].description, "Personal Training")}
TransactionsForUpdate(p) ==
    {t \in pre[p].transactions :
        /\ t.userId = req[p].body.customerId /\ t.gymId = req[p].body.gymId
        /\ t.transactionType = "PERSONAL_TRAINING"}

\* The update at slot p has a complete body and names a stored assignment.
UpdateOfStoredAssignment(p) ==
    /\ req[p].op = "update"
    /\ resp[p].status # 400
    /\ \E a \in pre[p].assignments : a.id = req[p].id

\* The assignment the update at slot p is to leave.
UpdatedAssignment(p) ==
    [id |-> req[p].id, customerId |-> req[p].body.customerId,
     trainerId |-> req[p].body.trainerId, gymId |-> req[p].body.gymId,
     startDate |-> req[p].body.startDate, duration |-> req[p].body.duration,
     endDate |-> ComputeEndDate(req[p].body.startDate, req[p].body.duration),
     fees |-> req[p].body.fees]

\* C19: an updateAssignment of a stored assignment for which no matching
\* invoice (no matching PERSONAL_TRAINING transaction) exists is answered 200
\* with the updated assignment (500 only when the store failed one of its
\* operations), the assignment and the customer's snapshot being updated;
\* the invoices (the transactions) are exactly as they were when it arrived:
\* none is created, none is written.
C19_UpdateSkipsMissingInvoiceAndTransaction ==
    \A p \in Procs :
        (pc[p] = "done" /\ UpdateOfStoredAssignment(p)
           /\ (InvoicesForUpdate(p) = {} \/ TransactionsForUpdate(p) = {})) =>
            /\ \/ resp[p].status = 200
               \/ resp[p].status = 500 /\ errorsLeft < MaxErrors
            /\ InvoicesForUpdate(p) = {} => invoices = pre[p].invoices
            /\ TransactionsForUpdate(p) = {} => transactions = pre[p].transactions
            /\ resp[p].status = 200 =>
                 /\ resp[p].body = UpdatedAssignment(p)
                 /\ UpdatedAssignment(p) \in assignments
                 /\ Cardinality(assignments) = Cardinality(pre[p].assignments)
                 /\ req[p].body.customerId \in Customers =>
                      customers[req[p].body.customerId].personalTrainer
                         = UpdatedAssignment(p)

\* An update answered 200 that moved the assignment to a customer without
\* invoice and transaction.
C19_Witness ==
    \E p \in Procs :
        /\ Answered(p, "update", 200)
        /\ UpdateOfStoredAssignment(p)
        /\ InvoicesForUpdate(p) = {} /\ TransactionsForUpdate(p) = {}
        /\ pre[p].invoices # {}
        /\ UpdatedAssignment(p) \in assignments
        /\ UpdatedAssignment(p) \notin pre[p].assignments

\* ---- C20

\* C20: the assignment a renewAssignment answered 200 stored has the endDate
\* (and startDate, duration, fees) of the request, whatever startDate and
\* duration give when the end date is computed from them.
C20_RenewStoresEndDateVerbatim ==
    \A p \in Procs :
        Answered(p, "renew", 200) =>
            /\ \E a \in assignments : a.id = req[p].id
            /\ \A a \in assignments :
                 a.id = req[p].id =>
                    /\ a.endDate = req[p].body.endDate
                    /\ a.startDate = req[p].body.startDate
                    /\ a.duration = req[p].body.duration
                    /\ a.fees = req[p].body.fees
            /\ resp[p].body.assignment.endDate = req[p].body.endDate

\* A renew answered 200 whose stored endDate is not startDate + duration
\* months - 1 day (neither as the code of create computes it nor by the
\* calendar).
C20_Witness ==
    \E p \in Procs :
        /\ Answered(p, "renew", 200)
        /\ \E a \in assignments :
             /\ a.id = req[p].id
             /\ a.endDate = req[p].body.endDate
             /\ a.endDate # ComputeEndDate(a.startDate, a.duration)
             /\ a.endDate # CalendarEndDate(a.startDate, a.duration)

\* ---- C21

\* C21: the membershipEndDate the add-customer form sends on submit is
\* membershipStartDate advanced by membershipDuration calendar months, minus
\* one day (the rule of the assignments).
C21_FormSendsMonthsMinusOneDay ==
    form.sent # Null =>
        form.sent.membershipEndDate =
            CalendarEndDate(form.sent.membershipStartDate, form.sent.membershipDuration)

\* ---- C22

ByIdRoutes == {"GET /:id", "PUT /:id", "DELETE /:id"}
ListRoutes == {"GET /", "GET /calendar"}

\* The documents the last request named by id, as stored when it arrived.
NamedBefore == {d \in call.before[call.api] : d.id = call.id}
StoreAsBefore ==
    members = call.before.members /\ bookings = call.before.bookings

\* C22: a member or a booking is read, updated or deleted by id with success
\* only when its gymId is the caller's gym; when the id names a record of
\* another gym the caller is answered 404 (unless the store operation itself
\* failed), the record is not in the answer and nothing stored has changed;
\* a list answers only records of the caller's gym.
C22_GymIsTenantBoundary ==
    /\ call.route \in ByIdRoutes =>
           /\ call.status = 200 => \E d \in NamedBefore : d.gymId = call.gymId
           /\ (\E d \in NamedBefore : d.gymId # call.gymId) =>
                  /\ call.data = Null
                  /\ StoreAsBefore
                  /\ call.gymId # NoGym /\ call.status # 500 => call.status = 404
    /\ call.route \in ListRoutes /\ call.status = 200 =>
           \A i \in 1..Len(call.data) : call.data[i].gymId = call.gymId

\* Gym g2 asked to update the booking of gym g1 (with a body naming g2), and was
\* answered 404.
C22_Witness ==
    /\ call.api = "bookings" /\ call.route = "PUT /:id"
    /\ call.gymId = "g2" /\ call.status = 404
    /\ call.body # Null /\ "gymId" \in DOMAIN call.body
    /\ \E d \in NamedBefore : d.gymId = "g1"

\* ---- C27

\* C27: a booking keeps the gymId it was created with: a booking POST stores
\* has the caller's gymId whatever the body says, and no request to the
\* bookings routes leaves a stored booking with another gymId than before.
C27_BookingGymIdNeverChanges ==
    call.api = "bookings" =>
        /\ call.route = "POST /" /\ call.status = 201 =>
               call.data.gymId = call.gymId /\ call.data \in bookings
        /\ \A old \in call.before.bookings, b \in bookings :
               b.id = old.id => b.gymId = old.gymId

\* ---- C23

\* C23: while updateAssignment or deleteAssignment handles a request, and when
\* it has answered, every customer's totalSpent is what it was when the request
\* arrived (requests handled one at a time).
C23_UpdateAndDeleteKeepTotalSpent ==
    \A p \in Procs :
        (pc[p] # "idle" /\ req[p].op \in {"update", "delete"}) =>
            \A c \in Customers :
                customers[c].totalSpent = pre[p].customers[c].totalSpent

\* A delete answered 200 removed a paid transaction, or an update answered 200
\* changed the fees of an assignment, while a customer's totalSpent is positive.
C23_Witness ==
    \E p \in Procs :
        /\ \/ /\ Answered(p, "delete", 200)
              /\ \E t \in pre[p].transactions : t \notin transactions /\ t.amount > 0
           \/ /\ Answered(p, "update", 200)
              /\ \E a \in pre[p].assignments, b \in assignments :
                     a.id = b.id /\ a.fees # b.fees
        /\ \E c \in Customers : customers[c].totalSpent > 0

\* ---- C24

\* C24: the transaction an updateAssignment answered 200 has overwritten is the
\* transaction of the invoice it has overwritten (its invoiceId is that
\* invoice's id).
C24_UpdatedInvoiceAndTransactionBelongTogether ==
    \A p \in Procs :
        (Answered(p, "update", 200)
            /\ loc[p].invoice # Null /\ loc[p].transaction # Null) =>
            loc[p].transaction.invoiceId = loc[p].invoice.id

\* ---- C25

\* C25: a number given to an invoice that was stored is not given to any invoice
\* stored later, whether or not the first invoice is still stored.
C25_NumberNeverGeneratedAgain ==
    \A i, j \in DOMAIN issued : issued[i] = issued[j] => i = j

\* ---- C26

\* The request at slot p was answered with success by createAssignment or
\* renewAssignment: it has incremented PaidCustomer(p)'s totalSpent by its fees.
Paid(p) == Answered(p, "create", 201) \/ Answered(p, "renew", 200)
PaidCustomer(p) ==
    IF req[p].op = "create" THEN req[p].body.customerId
    ELSE loc[p].assignment.customerId

\* Both requests arrived before either had incremented totalSpent.
RanConcurrently(p, q, c) ==
    pre[p].customers[c].totalSpent = pre[q].customers[c].totalSpent

\* C26: when two createAssignment / renewAssignment requests for one customer
\* ran concurrently and both were answered with success, the customer's
\* totalSpent is its value at their arrival plus the fees of both.
C26_ConcurrentIncrementsBothCount ==
    \A p, q \in Procs : \A c \in Customers :
        (p # q /\ Paid(p) /\ Paid(q)
              /\ PaidCustomer(p) = c /\ PaidCustomer(q) = c
              /\ RanConcurrently(p, q, c)) =>
            customers[c].totalSpent =
                pre[p].customers[c].totalSpent + req[p].body.fees + req[q].body.fees

\* A create and a renewal for customer c1 overlapped (each began before the
\* other was answered) and both succeeded.
C26_Witness ==
    \E p, q \in Procs :
        /\ Answered(p, "create", 201) /\ Answered(q, "renew", 200)
        /\ PaidCustomer(p) = "c1" /\ PaidCustomer(q) = "c1"
        /\ RanConcurrently(p, q, "c1")
        /\ customers["c1"].totalSpent > pre[p].customers["c1"].totalSpent

\* ---- C28

\* The body names all six fields, the three ids by non-empty strings.
AllSixFieldsPresent(body) ==
    /\ RequiredOfCreate \subseteq DOMAIN body
    /\ body.customerId # "" /\ body.trainerId # "" /\ body.gymId # ""

\* C28: createAssignment and updateAssignment do not answer 400 to a request
\* whose body has all six fields, whatever the numbers given as fees and as
\* duration (0 included).
C28_ZeroIsNotMissing ==
    \A p \in Procs :
        (pc[p] = "done" /\ req[p].op \in {"create", "update"}
            /\ AllSixFieldsPresent(req[p].body)) =>
            resp[p].status # 400

\* ---- C29

\* The step is a navigation of the hook.
Navigates == hook'.navigations # hook.navigations

\* No render is pending: every effect of the current values has run.
Settled == hook.mounted /\ ~hook.renderPending

\* C29 as stated: the hook navigates only when loading has finished, and once
\* it has (no render pending), an unauthenticated visitor is at redirectTo
\* whatever page the hook was mounted on.
C29_RedirectsOnEveryPage ==
    /\ [][Navigates => ~hook.isLoading /\ ~hook.initialLoad]_vars
    /\ [](Settled /\ ~hook.isLoading /\ ~hook.isAuthenticated =>
              hook.pathname = redirectTo)

\* C29, amended: the hook navigates only when loading has finished, the
\* visitor is not authenticated and the page is not one of the protected
\* paths; once loading has finished (no render pending), an unauthenticated
\* visitor of a page outside the protected paths is at redirectTo, and on a
\* protected path the visitor stays on the page.
C29_RedirectsOutsideProtectedPaths ==
    /\ [][Navigates =>
             /\ ~hook.isLoading /\ ~hook.initialLoad /\ ~hook.isAuthenticated
             /\ ~isProtectedPage(hook.pathname)
             /\ hook'.pathname = redirectTo]_vars
    /\ [](Settled /\ ~hook.isLoading /\ ~hook.isAuthenticated
              /\ ~isProtectedPage(hook.pathname) =>
              hook.pathname = redirectTo)

\* The hook has redirected an unauthenticated visitor from a page outside the
\* protected paths after loading had finished.
C29_Witness ==
    /\ Settled /\ hook.navigations > 0
    /\ ~hook.isLoading /\ ~hook.isAuthenticated /\ ~hook.initialLoad
    /\ hook.pathname = redirectTo

\* ---- C30

\* C30: the invoice an updateAssignment answered 200 has saved again had a
\* non-empty invoiceNumber before the save, and is stored with that same
\* number after it.
C30_ResaveKeepsInvoiceNumber ==
    \A p \in Procs :
        (Answered(p, "update", 200) /\ loc[p].invoice # Null) =>
            \A old \in pre[p].invoices :
                old.id = loc[p].invoice.id =>
                    /\ old.invoiceNumber # ""
                    /\ \E saved \in invoices :
                           /\ saved.id = old.id
                           /\ saved.invoiceNumber = old.invoiceNumber

\* An update answered 200 has saved an invoice with a new amount while another
\* invoice, created later and with a greater number, is stored.
C30_Witness ==
    \E p \in Procs :
        /\ Answered(p, "update", 200)
        /\ loc[p].invoice # Null
        /\ \E old \in pre[p].invoices, saved \in invoices :
               /\ old.id = loc[p].invoice.id /\ saved.id = old.id
               /\ saved.amount # old.amount
               /\ saved.invoiceNumber = "INV00001"
        /\ \E other \in invoices : other.invoiceNumber = "INV00002"

====
